---------------------------- MODULE Spec2Model ----------------------------
(***************************************************************************)
(* Model of the RF matching-network controller firmware (MatFW_001):       *)
(* the debug shell's main loop (DebugMode), the auto-match state machine   *)
(* (AMS) inside DebugMode::handleStreaming, the shell commands that change *)
(* AMS, VSWR thresholds and motor limits, and MotorController's target     *)
(* register writes.                                                        *)
(*                                                                         *)
(* Conventions.                                                            *)
(*  - Times are milliseconds of loop time (loopCounter_ * 10).             *)
(*  - A VSWR value or VSWR threshold is held in thousandths (1.04 is 1040).*)
(*  - A goal capacitance of the solver (a double, pF) is held in           *)
(*    thousandths of a pF; motor capacitances are pF x 100 as in the code. *)
(*  - A 32-bit register is held by its two's-complement (int32) reading.   *)
(*  - tx, motorCmd and ev describe what the last step emitted, wrote and   *)
(*    decided; they are rewritten by every step.                           *)
(*  - rt follows one call of a blocking routine (a sensor sample, a motor   *)
(*    rewind or index search, a bus transfer) poll by poll.                *)
(*                                                                         *)
(* The specifications share the state: Spec is the shell with the ams and *)
(* asv commands, SpecConfig the shell with the motor commands mr, mf, mo   *)
(* and msl, SpecEdge the shell with ams, amr and solver results at the     *)
(* edge of the capacitance band, SpecStart the shell with the forms of     *)
(* ams and ass; SpecSample follows RFSensor's averaged sample, SpecHoming  *)
(* the motor's rewind and index search, SpecBus the I2C and serial waits.  *)
(* SpecStream is the shell with the stream commands and the exit from the  *)
(* command loop, SpecLoad the loads of the settings records, SpecStore the *)
(* FRAM store byte by byte under the saves and loads, SpecCal the shell    *)
(* with the calibration commands and a restart, SpecShell the dispatch of  *)
(* a command line to its handler.  SpecHex follows the dfr and dfw lines,  *)
(* SpecSolve the solver's results in the AMS, SpecFit the conversions      *)
(* between step and capacitance, SpecSerial the serial receive path byte   *)
(* by byte, SpecHold the AMS on a sample that timed out, SpecWired the     *)
(* stream commands on a shell without a sensor, SpecWindow the entries the *)
(* averaging loop reads, SpecOrigin the origin register's writes and       *)
(* SpecTokens the tokenizer of a command line.                             *)
(***************************************************************************)
EXTENDS Integers, Sequences, FiniteSets, TLC

\* ------------------------------------------------------------------------
\* Bounds of the model
\* ------------------------------------------------------------------------

\* Number of shell-loop iterations explored.
MaxLoop == 11

\* ------------------------------------------------------------------------
\* Program constants
\* ------------------------------------------------------------------------

LoopPeriodMs == 10
Z_TARGET == 50
VswrCap == 999000
DefaultAmsInterval == 10
DefaultAmsTimeout == 5000
DefaultAmsLogInterval == 1
DefaultStreamRate == 100
DefaultMinValue == 0
DefaultMaxValue == 64000
DefaultLowerLimit == 4000
DefaultUpperLimit == 60000
DefaultMinCap == 0
DefaultMaxCap == 100000
DefaultVswrStart == 1040
DefaultVswrStop == 1020
DefaultVswrRestart == 1040
IndexSearchTarget == 15000

Motors == {0, 1}

\* The input and the output sensor, by the word that selects them.
Sensors == {"i", "o"}

\* A calibration as the board keeps it: voltage gain and current gain in
\* thousandths, phase difference in thousandths of a degree.
DefaultCal == <<1000, 1000, 0>>

Streams == {"imp_i", "imp_o", "vi_i", "vi_o", "pos"}

StreamOrder == <<"imp_i", "imp_o", "vi_i", "vi_o", "pos">>

\* ------------------------------------------------------------------------
\* Arithmetic helpers
\* ------------------------------------------------------------------------

Min2(a, b) == IF a < b THEN a ELSE b

\* C integer division and float-to-int conversion truncate toward zero.
TruncDiv(a, b) == IF a >= 0 THEN a \div b ELSE -((-a) \div b)

\* RFSensor::setPhaseDiffDeg: the product with kDegToRad, a float; here
\* thousandths of a degree to thousandths of a radian, rounded toward zero.
DegToRad(deg) == TruncDiv(deg * 1745, 100000)

\* RFSensor::phaseDiffDeg: the product with kRadToDeg, rounded likewise.
RadToDeg(rad) == TruncDiv(rad * 57296, 1000)

\* A sensor's cal_ after the two gains and the phase in degrees are set:
\* the constructor's initialiser, and the three setters in a row.
SensorCal(cal) ==
    [voltageGain |-> cal[1], currentGain |-> cal[2], phaseDiffRad |-> DegToRad(cal[3])]

RECURSIVE GCD(_, _)
GCD(a, b) == IF b = 0 THEN a ELSE GCD(b, a % b)

\* floor(a * b / c) for a, b >= 0 and c > 0, as the code computes it in
\* int64_t; the common factor of a and c is removed first so that the
\* product stays inside 32-bit arithmetic.
MulDiv(a, b, c) ==
    LET g == GCD(a, c)
    IN  IF g = 0 THEN 0 ELSE ((a \div g) * b) \div (c \div g)

\* Integer square root (floor) of 0 <= n < 1000000, by bisection of lo..hi.
RECURSIVE IsqrtIn(_, _, _)
IsqrtIn(n, lo, hi) ==
    IF lo >= hi THEN lo
    ELSE LET mid == (lo + hi + 1) \div 2
         IN  IF mid * mid <= n THEN IsqrtIn(n, mid, hi) ELSE IsqrtIn(n, lo, mid - 1)

Isqrt(n) == IsqrtIn(n, 0, 1000)

\* ------------------------------------------------------------------------
\* Tokens.  A token of the command line is a sequence of characters.
\* ------------------------------------------------------------------------

DigitChars == <<"0", "1", "2", "3", "4", "5", "6", "7", "8", "9">>

IsDigit(c) == \E d \in 1..Len(DigitChars) : DigitChars[d] = c

DigitValue(c) == (CHOOSE d \in 1..Len(DigitChars) : DigitChars[d] = c) - 1

\* The decimal digits of tok from index i on, accumulated until the first
\* character that is not a digit.
RECURSIVE DigitRun(_, _, _)
DigitRun(tok, i, acc) ==
    IF i > Len(tok) \/ ~IsDigit(tok[i]) THEN acc
    ELSE DigitRun(tok, i + 1, acc * 10 + DigitValue(tok[i]))

\* Index of the first character at or after i that is not a digit.
RECURSIVE DigitEnd(_, _)
DigitEnd(tok, i) ==
    IF i > Len(tok) \/ ~IsDigit(tok[i]) THEN i ELSE DigitEnd(tok, i + 1)

\* Where the number starts: after an optional sign.
SignLength(tok) == IF Len(tok) > 0 /\ tok[1] \in {"-", "+"} THEN 1 ELSE 0

IsNegative(tok) == Len(tok) > 0 /\ tok[1] = "-"

\* atoi(): optional sign, then digits; anything else ends the number, and
\* a token that does not start with a number gives 0.
atoi(tok) ==
    LET v == DigitRun(tok, SignLength(tok) + 1, 0)
    IN  IF IsNegative(tok) THEN -v ELSE v

\* atof(), in thousandths: optional sign, digits, then an optional point
\* and fraction digits, of which the first three count.
atof(tok) ==
    LET first == SignLength(tok) + 1
        whole == DigitRun(tok, first, 0)
        dot == DigitEnd(tok, first)
        hasFrac == dot <= Len(tok) /\ tok[dot] = "."
        fracEnd == IF hasFrac THEN Min2(DigitEnd(tok, dot + 1), dot + 4) ELSE dot + 1
        fracTok == IF hasFrac THEN SubSeq(tok, dot + 1, fracEnd - 1) ELSE <<>>
        frac == DigitRun(SubSeq(fracTok \o <<"0", "0", "0">>, 1, 3), 1, 0)
        v == whole * 1000 + frac
    IN  IF IsNegative(tok) THEN -v ELSE v

\* strchr(tok, ','): index of the first comma, 0 when there is none.
RECURSIVE strchrComma(_, _)
strchrComma(tok, i) ==
    IF i > Len(tok) THEN 0
    ELSE IF tok[i] = "," THEN i
    ELSE strchrComma(tok, i + 1)

\* The fields the msl handler cuts its argument into: at most n, each cut
\* at the first comma of what remains.
RECURSIVE SplitFields(_, _)
SplitFields(tok, n) ==
    LET c == strchrComma(tok, 1)
    IN  IF n <= 1 \/ c = 0 THEN <<tok>>
        ELSE <<SubSeq(tok, 1, c - 1)>> \o SplitFields(SubSeq(tok, c + 1, Len(tok)), n - 1)

\* What the host types: the decimal text of an integer.
RECURSIVE NatText(_)
NatText(n) == IF n < 10 THEN <<DigitChars[n + 1]>> ELSE NatText(n \div 10) \o <<DigitChars[(n % 10) + 1]>>

IntText(n) == IF n < 0 THEN <<"-">> \o NatText(-n) ELSE NatText(n)

\* What the host types: a number of thousandths as a decimal with a point.
DecimalText(t) ==
    NatText(t \div 1000) \o <<".">> \o
    <<DigitChars[((t \div 100) % 10) + 1], DigitChars[((t \div 10) % 10) + 1], DigitChars[(t % 10) + 1]>>

\* What the host types: fields joined by commas.
RECURSIVE CommaJoin(_)
CommaJoin(fields) ==
    IF Len(fields) = 0 THEN <<>>
    ELSE IF Len(fields) = 1 THEN fields[1]
    ELSE fields[1] \o <<",">> \o CommaJoin(Tail(fields))

Word_stop == <<"s", "t", "o", "p">>

Word_start == <<"s", "t", "a", "r", "t">>

\* ------------------------------------------------------------------------
\* VSWR (MatchingAlgorithm.hpp, calculateVSWR), in thousandths.
\* R and X are whole ohms here, so "denom < 1e-12" is "denom = 0", and
\* "gamma >= 1.0" is "numer >= denom".
\* ------------------------------------------------------------------------

\* floor(1000000 * numer / denom) for 0 <= numer < denom, in two steps so
\* that no intermediate product leaves 32-bit arithmetic.
Ratio6(numer, denom) ==
    LET q == (numer * 1000) \div denom
        r == (numer * 1000) % denom
    IN  q * 1000 + (r * 1000) \div denom

calculateVSWR_UnsafeAsMatched(R, X) ==
    LET denom == (R + Z_TARGET) * (R + Z_TARGET) + X * X
        numer == (R - Z_TARGET) * (R - Z_TARGET) + X * X
        gamma == Isqrt(Ratio6(numer, denom))
    IN  IF denom = 0 THEN VswrCap
        ELSE IF numer >= denom THEN 1000
        ELSE ((1000 + gamma) * 1000) \div (1000 - gamma)

calculateVSWR(R, X) ==
    LET denom == (R + Z_TARGET) * (R + Z_TARGET) + X * X
        numer == (R - Z_TARGET) * (R - Z_TARGET) + X * X
        gamma == Isqrt(Ratio6(numer, denom))
    IN  IF denom = 0 THEN VswrCap
        ELSE IF numer >= denom THEN VswrCap
        ELSE ((1000 + gamma) * 1000) \div (1000 - gamma)

\* ------------------------------------------------------------------------
\* State
\* ------------------------------------------------------------------------

VARIABLES
    pc,               \* "boot": constructed, FRAM not yet loaded; "shell": in runCommandLoop
    iSensor_,         \* DebugMode::iSensor_ is non-null
    oSensor_,         \* DebugMode::oSensor_ is non-null
    mBoard_,          \* DebugMode::mBoard_ is non-null
    loopCounter_,     \* DebugMode::loopCounter_
    streamEnabled,    \* impStreamEnabled_i_, ..., motorPosStreamEnabled_
    streamRate,       \* impStreamRate_i_, ..., motorPosStreamRate_
    lastStreamTime,   \* lastImpStreamTime_i_, ..., lastMotorPosStreamTime_
    amsEnabled_,
    amsMatching_,
    amsInterval_,
    amsTimeout_,
    amsStartTime_,
    lastAmsTime_,
    amsVerbose_,
    amsLogInterval_,
    amsLogCounter_,
    matcherInfo,      \* MotionBoard::matcherInfo (the fields the shell uses)
    M,                \* MotionBoard::M1 (index 0) and M2 (index 1)
    tarPosReg,        \* gpioOut[0] of each motor: TAR_POS
    originReg,        \* gpioOut[2] of each motor: SET_ORIGIN
    nowPosReg,        \* gpioIn[0] of each motor: NOW_POS, written by the fabric
    lastMove,         \* which operation wrote TAR_POS last: "none", "run", "force", "origin"
    fram,             \* the records stored in FRAM
    tx,               \* frames and text lines sent to the host by the last step
    motorCmd,         \* TAR_POS writes of the last step, in order
    ev,               \* what the last step was and what it decided
    cal_,             \* RFSensor::cal_ of the input ("i") and the output ("o") sensor
    rt                \* the blocking routine in progress, followed step by step

\* The variables of the shell.
shellVars == <<pc, iSensor_, oSensor_, mBoard_, loopCounter_, streamEnabled, streamRate,
               lastStreamTime, amsEnabled_, amsMatching_, amsInterval_, amsTimeout_,
               amsStartTime_, lastAmsTime_, amsVerbose_, amsLogInterval_, amsLogCounter_,
               matcherInfo, M, tarPosReg, originReg, nowPosReg, lastMove, fram, tx,
               motorCmd, ev, cal_>>

vars == <<shellVars, rt>>

amsVars == <<amsEnabled_, amsMatching_, amsInterval_, amsTimeout_, amsStartTime_,
             lastAmsTime_, amsVerbose_, amsLogInterval_, amsLogCounter_>>

streamVars == <<streamEnabled, streamRate, lastStreamTime>>

\* What no step of the shell but a calibration command changes: which
\* parts it was constructed with, the sensors' calibration, and the routine
\* followed step by step, which the shell's steps take as one step.
presenceVars == <<iSensor_, oSensor_, mBoard_, rt, cal_>>

\* Of these, what a calibration command leaves alone.
partsVars == <<iSensor_, oSensor_, mBoard_, rt>>

regVars == <<tarPosReg, originReg, nowPosReg, lastMove>>

\* A line sent to the host: a protocol frame <op>,<a>,<s>,<n...>,EN (a and s
\* are its words, n its numbers) or a line of free text.  Debug log lines
\* (those the code marks [AMS DEBUG], [LOAD], [SAVE], [MOTOR]) are not
\* recorded, and of a reply of several text lines only the first is.
Frame(op, a, s, n) == [op |-> op, a |-> a, s |-> s, n |-> n]

Text(what) == Frame("TEXT", what, "", <<>>)

\* WebTerminal::sendAck
Ack(cmd, status) == Frame("ACK", cmd, status, <<>>)

\* The output of the matching solver when no solve was run.
NoGoals ==
    [VVC0Goal0 |-> 0, VVC1Goal0 |-> 0, step0Goal0 |-> 0, step1Goal0 |-> 0, valid0 |-> FALSE,
     VVC0Goal1 |-> 0, VVC1Goal1 |-> 0, step0Goal1 |-> 0, step1Goal1 |-> 0, valid1 |-> FALSE]

\* ev of a step that is not an AMS evaluation.
Event(op, path) ==
    [op |-> op, path |-> path, wasEnabled |-> amsEnabled_, wasMatching |-> amsMatching_,
     now |-> loopCounter_ * LoopPeriodMs, vswr |-> 0, sampled |-> FALSE,
     goals |-> NoGoals, selectedGoal |-> -1]

\* MotorController::MotorController
MotorDefaults ==
    [posOffset |-> 0,
     minValue |-> DefaultMinValue, maxValue |-> DefaultMaxValue,
     lowerLimit |-> DefaultLowerLimit, upperLimit |-> DefaultUpperLimit,
     minCap |-> DefaultMinCap, maxCap |-> DefaultMaxCap,
     fitCoeffs |-> <<0, 0, 0, 0>>,
     gpioInitialized |-> FALSE]

DefaultLimits == <<DefaultMinValue, DefaultMaxValue, DefaultLowerLimit, DefaultUpperLimit>>

DefaultVswr == <<DefaultVswrStart, DefaultVswrStop, DefaultVswrRestart>>

\* MotionBoard::MotionBoard
MatcherInfoDefaults ==
    [motorLimits |-> [i \in Motors |-> DefaultLimits],
     motorCaps |-> [i \in Motors |-> <<DefaultMinCap, DefaultMaxCap>>],
     vswrStart |-> DefaultVswrStart,
     vswrStop |-> DefaultVswrStop,
     vswrRestart |-> DefaultVswrRestart,
     amsInterval |-> 10, amsTimeout |-> 0, amsLogInterval |-> 10]

\* A motor-limit record (min, max, lower, upper) with the window upside
\* down, and a VSWR record (start, stop, restart) with stop above the others.
InvertedLimits == <<0, 64000, 60000, 4000>>

UnorderedVswr == <<1040, 5000, 2000>>

\* What FRAM may hold at power-on: any bytes.  The motor-limit images
\* explored hold the same record for both motors.
FramLimitImages == {[i \in Motors |-> r] : r \in {DefaultLimits, InvertedLimits}}

FramVswrRecords == {DefaultVswr, UnorderedVswr}

\* The AMS settings record (interval, timeout, log interval) that FRAM holds
\* at power-on, as an earlier ass left it.
FramAmsRecord == <<20, 0, 5>>

\* No routine is being followed.
NoRoutine == [routine |-> "none"]

\* DebugMode::DebugMode, MotionBoard::MotionBoard and MotorController's
\* constructor; the registers hold the position the boot homing leaves.
InitWithMotors(limitImages, vswrRecords, present, motors) ==
    /\ pc = "boot"
    /\ \E p \in present : iSensor_ = p[1] /\ oSensor_ = p[2] /\ mBoard_ = p[3]
    /\ loopCounter_ = 0
    /\ streamEnabled = [s \in Streams |-> FALSE]
    /\ streamRate = [s \in Streams |-> DefaultStreamRate]
    /\ lastStreamTime = [s \in Streams |-> 0]
    /\ amsEnabled_ = FALSE
    /\ amsMatching_ = FALSE
    /\ amsInterval_ = DefaultAmsInterval
    /\ amsTimeout_ = DefaultAmsTimeout
    /\ amsStartTime_ = 0
    /\ lastAmsTime_ = 0
    /\ amsVerbose_ = TRUE
    /\ amsLogInterval_ = DefaultAmsLogInterval
    /\ amsLogCounter_ = 0
    /\ matcherInfo = MatcherInfoDefaults
    /\ M \in motors
    /\ tarPosReg = [i \in Motors |-> IndexSearchTarget]
    /\ originReg = [i \in Motors |-> 0]
    /\ nowPosReg = [i \in Motors |-> IndexSearchTarget]
    /\ lastMove = [i \in Motors |-> "none"]
    /\ fram \in [motorLimits : limitImages, vswr : vswrRecords, ams : {FramAmsRecord}]
    /\ rt = NoRoutine
    /\ cal_ = [s \in Sensors |-> SensorCal(DefaultCal)]
    /\ tx = <<>>
    /\ motorCmd = <<>>
    /\ ev = [op |-> "init", path |-> "", wasEnabled |-> FALSE, wasMatching |-> FALSE,
             now |-> 0, vswr |-> 0, sampled |-> FALSE, goals |-> NoGoals,
             selectedGoal |-> -1]

InitWith(limitImages, vswrRecords, present) ==
    InitWithMotors(limitImages, vswrRecords, present, {[i \in Motors |-> MotorDefaults]})

\* Which of the input sensor, the output sensor and the MotionBoard the
\* shell was constructed with: all of them, no input sensor, no board.
Presence == {<<TRUE, TRUE, TRUE>>, <<FALSE, TRUE, TRUE>>, <<TRUE, TRUE, FALSE>>}

Init == InitWith({[i \in Motors |-> DefaultLimits]}, FramVswrRecords, Presence)

\* ------------------------------------------------------------------------
\* MotorController
\* ------------------------------------------------------------------------

\* MotorController::readPos: the raw position register plus posOffset.
readPos(i) == nowPosReg[i] + M[i].posOffset

\* The float values of the capacitance fit are carried as exact fractions
\* <<numerator, denominator>> in lowest terms, the denominator positive.
\* The code's float arithmetic rounds each result by at most 2^-24 of its
\* size, which moves a truncated or rounded result only when the exact value
\* lies that close to an integer or to a half.
AbsInt(n) == IF n < 0 THEN -n ELSE n

\* n/d with d > 0 and g the greatest common divisor of the two.
Reduced(n, d, g) == <<n \div g, d \div g>>

Rat(n, d) ==
    IF d < 0 THEN Reduced(-n, -d, GCD(AbsInt(n), AbsInt(d)))
    ELSE Reduced(n, d, GCD(AbsInt(n), d))

RatOfInt(n) == <<n, 1>>

RatNeg(p) == <<-p[1], p[2]>>

RatAbs(p) == <<AbsInt(p[1]), p[2]>>

\* p + q, g being the greatest common divisor of the denominators.
RatAddOver(p, q, g) ==
    Rat(p[1] * (q[2] \div g) + q[1] * (p[2] \div g), (p[2] \div g) * q[2])

RatAdd(p, q) == RatAddOver(p, q, GCD(p[2], q[2]))

RatSub(p, q) == RatAdd(p, RatNeg(q))

\* p * q, the common divisors g1 of p's numerator and q's denominator and
\* g2 of q's numerator and p's denominator being removed first.
RatMulOver(p, q, g1, g2) ==
    <<(p[1] \div g1) * (q[1] \div g2), (p[2] \div g2) * (q[2] \div g1)>>

RatMul(p, q) ==
    IF p[1] = 0 \/ q[1] = 0 THEN <<0, 1>>
    ELSE RatMulOver(p, q, GCD(AbsInt(p[1]), q[2]), GCD(AbsInt(q[1]), p[2]))

RatDiv(p, q) == RatMul(p, Rat(q[2], q[1]))

RatLessOver(p, q, g) == p[1] * (q[2] \div g) < q[1] * (p[2] \div g)

RatLess(p, q) == RatLessOver(p, q, GCD(p[2], q[2]))

\* The cast (int32_t) of a float: the fraction is dropped.
RatTrunc(p) == TruncDiv(p[1], p[2])

\* MotorController::isFittingCalibrated
isFittingCalibrated(m) == \E k \in 1..4 : m.fitCoeffs[k] # 0

\* c[k] + c[k+1]*x + ... + c[n]*x^(n-k) for the coefficients c, exactly.
RECURSIVE PolynomialFrom(_, _, _)
PolynomialFrom(c, x, k) ==
    IF k > Len(c) THEN <<0, 1>>
    ELSE RatAdd(RatMul(PolynomialFrom(c, x, k + 1), x), RatOfInt(c[k]))

\* a3*x*x*x + a2*x*x + a1*x + a0 of getCapacitanceAt and getPositionFromCap;
\* fitCoeffs[0..3] of the code are fitCoeffs[1..4] here.
FitPolynomial(m, x) == PolynomialFrom(m.fitCoeffs, x, 1)

\* 3*a3*x*x + 2*a2*x + a1 of getPositionFromCap.
FitDerivative(m, x) ==
    PolynomialFrom(<<m.fitCoeffs[2], 2 * m.fitCoeffs[3], 3 * m.fitCoeffs[4]>>, x, 1)

\* xNorm = (step - minValue) / (maxValue - minValue)
xNormOf(m, step) == Rat(step - m.minValue, m.maxValue - m.minValue)

linearCapacitanceAt_Unclamped(m, pos) ==
    IF m.maxValue <= m.minValue THEN m.minCap
    ELSE LET range == m.maxCap - m.minCap
             posRange == m.maxValue - m.minValue
             posOffset == pos - m.minValue
         IN  IF posOffset >= 0 THEN m.minCap + MulDiv(range, posOffset, posRange)
             ELSE m.minCap - MulDiv(range, -posOffset, posRange)

\* The fallback of MotorController::getCapacitanceAt: linear interpolation
\* in int64_t over the clamped offset, the quotient truncated.
linearCapacitanceAt(m, pos) ==
    IF m.maxValue <= m.minValue THEN m.minCap
    ELSE LET range == m.maxCap - m.minCap
             posRange == m.maxValue - m.minValue
             raw == pos - m.minValue
             posOffset == IF raw < 0 THEN 0 ELSE IF raw > posRange THEN posRange ELSE raw
             quot == IF range >= 0 THEN MulDiv(range, posOffset, posRange)
                     ELSE -MulDiv(-range, posOffset, posRange)
         IN  m.minCap + quot

\* MotorController::getCapacitanceAt, in pF x 100.
getCapacitanceAt(m, pos) ==
    IF isFittingCalibrated(m) /\ m.maxValue - m.minValue > 0
    THEN RatTrunc(RatMul(FitPolynomial(m, xNormOf(m, pos)), RatOfInt(100)))
    ELSE linearCapacitanceAt(m, pos)

maxIterations == 20

tolerance_OnePf == <<1, 1>>

\* const float tolerance = 0.1f, in pF.
tolerance == <<1, 10>>

\* The loop of getPositionFromCap from its pass i on, xNorm being the
\* current guess: the guess it ends with and the number of passes entered.
\* A derivative below 1e-10 in size is a derivative of 0 here: no nonzero
\* fraction of the model is that small.
RECURSIVE NewtonRaphson(_, _, _, _)

\* if (xNorm < xNormLower) xNorm = xNormLower;
ClampLower(xNorm, xNormLower) == IF RatLess(xNorm, xNormLower) THEN xNormLower ELSE xNorm

\* if (xNorm > xNormUpper) xNorm = xNormUpper;
ClampUpper(xNorm, xNormUpper) == IF RatLess(xNormUpper, xNorm) THEN xNormUpper ELSE xNorm

\* One pass of the loop, fx and fpx being the polynomial less the target
\* and its derivative at xNorm.
NewtonPass(m, targetCapPf, xNorm, i, fx, fpx) ==
    IF RatLess(RatAbs(fx), tolerance) THEN [xNorm |-> xNorm, passes |-> i + 1]
    ELSE IF fpx[1] = 0 THEN [xNorm |-> xNorm, passes |-> i + 1]
    ELSE NewtonRaphson(m, targetCapPf,
                       ClampUpper(ClampLower(RatSub(xNorm, RatDiv(fx, fpx)),
                                             xNormOf(m, m.lowerLimit)),
                                  xNormOf(m, m.upperLimit)),
                       i + 1)

NewtonRaphson(m, targetCapPf, xNorm, i) ==
    IF i >= maxIterations THEN [xNorm |-> xNorm, passes |-> i]
    ELSE NewtonPass(m, targetCapPf, xNorm, i,
                    RatSub(FitPolynomial(m, xNorm), targetCapPf), FitDerivative(m, xNorm))

\* float step = xNorm * xRange + (float)minValue; return (int32_t)(step + 0.5f);
newtonStep(m, end) ==
    [step |-> RatTrunc(RatAdd(RatAdd(RatMul(end.xNorm, RatOfInt(m.maxValue - m.minValue)),
                                     RatOfInt(m.minValue)),
                              <<1, 2>>)),
     passes |-> end.passes]

\* The calibrated branch of getPositionFromCap: the initial guess is the
\* middle of the normalised limits.
newtonPositionFromCap(m, targetCap) ==
    newtonStep(m, NewtonRaphson(m, Rat(targetCap, 100),
                                RatDiv(RatAdd(xNormOf(m, m.lowerLimit),
                                              xNormOf(m, m.upperLimit)),
                                       RatOfInt(2)),
                                0))

\* The fallback of MotorController::getPositionFromCap: linear
\* interpolation in int64_t, the quotient truncated.
linearPositionFromCap(m, targetCap) ==
    IF m.maxCap <= m.minCap THEN m.minValue
    ELSE LET posRange == m.maxValue - m.minValue
             capRange == m.maxCap - m.minCap
             raw == targetCap - m.minCap
             capOffset == IF raw < 0 THEN 0 ELSE IF raw > capRange THEN capRange ELSE raw
             quot == IF posRange >= 0 THEN MulDiv(posRange, capOffset, capRange)
                     ELSE -MulDiv(-posRange, capOffset, capRange)
         IN  m.minValue + quot

\* MotorController::getPositionFromCap
getPositionFromCap(m, targetCap) ==
    IF isFittingCalibrated(m) /\ m.maxValue - m.minValue > 0
    THEN newtonPositionFromCap(m, targetCap).step
    ELSE linearPositionFromCap(m, targetCap)

\* The clamp of MotorController::RunMotor.
clampedPosition(m, targetPosition) ==
    IF targetPosition < m.lowerLimit THEN m.lowerLimit
    ELSE IF targetPosition > m.upperLimit THEN m.upperLimit
    ELSE targetPosition

\* One write of the TAR_POS register.
Write(i, kind, target, value) == [motor |-> i, kind |-> kind, target |-> target, value |-> value]

\* MotorController::RunMotor: the TAR_POS writes it makes (none when the
\* GPIO is not initialised).
RunMotor(i, targetPosition) ==
    IF ~M[i].gpioInitialized THEN <<>>
    ELSE <<Write(i, "run", targetPosition, clampedPosition(M[i], targetPosition))>>

\* MotorController::RunMotorForce: no clamp.
RunMotorForce(i, targetPosition) ==
    IF ~M[i].gpioInitialized THEN <<>>
    ELSE <<Write(i, "force", targetPosition, targetPosition)>>

\* MotorController::SetMotorOrigin: TAR_POS is set to the new origin first.
SetMotorOrigin(i, position) ==
    IF ~M[i].gpioInitialized THEN <<>>
    ELSE <<Write(i, "origin", position, position)>>

\* The registers after a sequence of TAR_POS writes.
RECURSIVE ApplyWrites(_, _)
ApplyWrites(reg, writes) ==
    IF writes = <<>> THEN reg
    ELSE ApplyWrites([reg EXCEPT ![Head(writes).motor] = Head(writes).value], Tail(writes))

RECURSIVE ApplyKinds(_, _)
ApplyKinds(last, writes) ==
    IF writes = <<>> THEN last
    ELSE ApplyKinds([last EXCEPT ![Head(writes).motor] = Head(writes).kind], Tail(writes))

\* ------------------------------------------------------------------------
\* Matching goals
\* ------------------------------------------------------------------------

\* What the closed-form solver of calculateMatchingGoals can return for the
\* four goal capacitances (thousandths of a pF) and the two validity flags.
\* The solver itself is floating point; its result is taken as an input,
\* restricted by what its code guarantees: a negative discriminant gives
\* zeros and no valid goal, and a valid goal has VVC0 > 0 and VVC1 >= 0.
NoSolution ==
    [VVC0Goal0 |-> 0, VVC1Goal0 |-> 0, valid0 |-> FALSE,
     VVC0Goal1 |-> 0, VVC1Goal1 |-> 0, valid1 |-> FALSE]

SolverOutputs ==
    { NoSolution,
      [VVC0Goal0 |-> 500000, VVC1Goal0 |-> 250000, valid0 |-> TRUE,
       VVC0Goal1 |-> 250000, VVC1Goal1 |-> 500000, valid1 |-> TRUE],
      [VVC0Goal0 |-> 1200000, VVC1Goal0 |-> 250000, valid0 |-> TRUE,
       VVC0Goal1 |-> 250000, VVC1Goal1 |-> 1000005, valid1 |-> TRUE],
      [VVC0Goal0 |-> 500000, VVC1Goal0 |-> 1000050, valid0 |-> TRUE,
       VVC0Goal1 |-> 250000, VVC1Goal1 |-> -5, valid1 |-> FALSE] }

\* (int32_t)(goal * 100.0): pF to pF x 100, truncated toward zero.
capOfGoal(vvc) == TruncDiv(vvc, 10)

\* A variant of calculateMatchingGoals that converts capacitances to steps
\* for a negative discriminant too.
calculateMatchingGoals_AlwaysConverted(sol) ==
    [VVC0Goal0 |-> sol.VVC0Goal0, VVC1Goal0 |-> sol.VVC1Goal0,
     step0Goal0 |-> getPositionFromCap(M[0], capOfGoal(sol.VVC0Goal0)),
     step1Goal0 |-> getPositionFromCap(M[1], capOfGoal(sol.VVC1Goal0)),
     valid0 |-> sol.valid0,
     VVC0Goal1 |-> sol.VVC0Goal1, VVC1Goal1 |-> sol.VVC1Goal1,
     step0Goal1 |-> getPositionFromCap(M[0], capOfGoal(sol.VVC0Goal1)),
     step1Goal1 |-> getPositionFromCap(M[1], capOfGoal(sol.VVC1Goal1)),
     valid1 |-> sol.valid1]

\* MatchingAlgorithm::calculateMatchingGoals.  NoSolution is the solver's
\* result for a negative discriminant: the function returns there with the
\* goals and the steps set to zero.  Otherwise its last part converts the
\* solver's capacitances to motor steps by each motor's inverse map.
calculateMatchingGoals(sol) ==
    IF sol = NoSolution THEN NoGoals
    ELSE
    [VVC0Goal0 |-> sol.VVC0Goal0, VVC1Goal0 |-> sol.VVC1Goal0,
     step0Goal0 |-> getPositionFromCap(M[0], capOfGoal(sol.VVC0Goal0)),
     step1Goal0 |-> getPositionFromCap(M[1], capOfGoal(sol.VVC1Goal0)),
     valid0 |-> sol.valid0,
     VVC0Goal1 |-> sol.VVC0Goal1, VVC1Goal1 |-> sol.VVC1Goal1,
     step0Goal1 |-> getPositionFromCap(M[0], capOfGoal(sol.VVC0Goal1)),
     step1Goal1 |-> getPositionFromCap(M[1], capOfGoal(sol.VVC1Goal1)),
     valid1 |-> sol.valid1]

\* The capacitance-band test of the goal selection.
goal0_valid(goals) ==
    /\ goals.valid0
    /\ capOfGoal(goals.VVC0Goal0) >= M[0].minCap /\ capOfGoal(goals.VVC0Goal0) <= M[0].maxCap
    /\ capOfGoal(goals.VVC1Goal0) >= M[1].minCap /\ capOfGoal(goals.VVC1Goal0) <= M[1].maxCap

goal1_valid(goals) ==
    /\ goals.valid1
    /\ capOfGoal(goals.VVC0Goal1) >= M[0].minCap /\ capOfGoal(goals.VVC0Goal1) <= M[0].maxCap
    /\ capOfGoal(goals.VVC1Goal1) >= M[1].minCap /\ capOfGoal(goals.VVC1Goal1) <= M[1].maxCap

\* A variant of selectedGoal that tries goal 1 first.
selectedGoal_Goal1First(goals) ==
    IF goal1_valid(goals) THEN 1
    ELSE IF goal0_valid(goals) THEN 0
    ELSE -1

\* The goal selection shared by the AMS tick and amr: goal 0 first.
selectedGoal(goals) ==
    IF goal0_valid(goals) THEN 0
    ELSE IF goal1_valid(goals) THEN 1
    ELSE -1

\* The motor moves of a selected goal: M1 first, then M2.
goalMoves(goals, sel) ==
    IF sel = 0 THEN RunMotor(0, goals.step0Goal0) \o RunMotor(1, goals.step1Goal0)
    ELSE IF sel = 1 THEN RunMotor(0, goals.step0Goal1) \o RunMotor(1, goals.step1Goal1)
    ELSE <<>>

\* ------------------------------------------------------------------------
\* Start-up
\* ------------------------------------------------------------------------

\* MotionBoard::initialize, when it succeeds: both motors' GPIO are
\* initialised.  The shell is entered after a successful initialisation.
initialize == [i \in Motors |-> [M[i] EXCEPT !.gpioInitialized = TRUE]]

\* MotionBoard::loadMotorLimits: the limits a motor record gets from the
\* FRAM record, or the defaults when the read fails.  No check is made.
loadMotorLimits(readOk) ==
    [i \in Motors |-> IF readOk THEN fram.motorLimits[i] ELSE DefaultLimits]

\* MotionBoard::loadVswrSettings: each threshold is range-checked on its
\* own and replaced by its default when out of range.
loadVswrSettings(readOk) ==
    IF ~readOk THEN DefaultVswr
    ELSE <<IF fram.vswr[1] >= 1000 /\ fram.vswr[1] <= 10000 THEN fram.vswr[1] ELSE DefaultVswrStart,
           IF fram.vswr[2] >= 1000 /\ fram.vswr[2] <= 5000 THEN fram.vswr[2] ELSE DefaultVswrStop,
           IF fram.vswr[3] >= 1000 /\ fram.vswr[3] <= 10000 THEN fram.vswr[3] ELSE DefaultVswrRestart>>

\* A motor record with the limits (min, max, lower, upper) applied.
WithLimits(m, lim) ==
    [m EXCEPT !.minValue = lim[1], !.maxValue = lim[2],
              !.lowerLimit = lim[3], !.upperLimit = lim[4]]

\* The firmware's start-up before the shell loop: MotionBoard::initialize
\* and MotionBoard::loadMatcherInfo (motor limits, then VSWR settings).
\* Without a MotionBoard there is nothing to initialise or load.
Boot ==
    /\ pc = "boot"
    /\ pc' = "shell"
    /\ IF mBoard_
       THEN \E limitsOk \in BOOLEAN, vswrOk \in BOOLEAN :
              LET lim == loadMotorLimits(limitsOk)
                  vs == loadVswrSettings(vswrOk)
              IN  /\ M' = [i \in Motors |-> WithLimits(initialize[i], lim[i])]
                  /\ matcherInfo' = [matcherInfo EXCEPT !.motorLimits = lim,
                                                        !.vswrStart = vs[1],
                                                        !.vswrStop = vs[2],
                                                        !.vswrRestart = vs[3]]
                  /\ tx' = <<Frame("MGL", "", "", <<0>> \o lim[0]),
                             Frame("MGL", "", "", <<1>> \o lim[1]),
                             Frame("VSW", "", "", vs)>>
       ELSE /\ UNCHANGED <<M, matcherInfo>>
            /\ tx' = <<>>
    /\ motorCmd' = <<>>
    /\ ev' = Event("boot", "")
    /\ UNCHANGED <<presenceVars, loopCounter_, streamVars, amsVars, regVars, fram>>

\* ------------------------------------------------------------------------
\* Shell commands (DebugMode::handleAutoMatchCommand)
\* ------------------------------------------------------------------------

\* The range limits of the ams arguments.
ClampInterval(v) == IF v < 1 THEN 1 ELSE IF v > 1000 THEN 1000 ELSE v

ClampTimeout(v) == IF v /= 0 /\ v < 100 THEN 100 ELSE IF v > 60000 THEN 60000 ELSE v

\* A variant of amsStop that disables AMS but leaves its mode as it was.
amsStop_KeepsMode ==
    /\ amsEnabled_' = FALSE
    /\ amsMatching_' = amsMatching_

\* What ams stop does to the AMS flags.
amsStop ==
    /\ amsEnabled_' = FALSE
    /\ amsMatching_' = FALSE

\* A variant of AmsPartsMissing that does not test the MotionBoard.
AmsPartsMissing_SensorsOnly == ~iSensor_ \/ ~oSensor_

\* The test ams makes before it starts AMS.
AmsPartsMissing == ~iSensor_ \/ ~oSensor_ \/ ~mBoard_

\* ams [stop | interval [timeout [logInterval]]]; args are argv[1..].
CmdAms(args) ==
    /\ pc = "shell"
    /\ IF Len(args) >= 1 /\ args[1] = Word_stop
       THEN /\ amsStop
            /\ tx' = <<Text("AMS stopped"), Ack("ams", "STOP")>>
            /\ ev' = Event("ams", "stop")
            /\ UNCHANGED <<amsInterval_, amsTimeout_, amsStartTime_, lastAmsTime_,
                           amsVerbose_, amsLogInterval_, amsLogCounter_>>
       ELSE IF AmsPartsMissing
       THEN /\ tx' = <<Text("Error: Sensors or MotionBoard not available"), Ack("ams", "ERROR")>>
            /\ ev' = Event("ams", "error")
            /\ UNCHANGED <<amsEnabled_, amsMatching_, amsInterval_, amsTimeout_, amsStartTime_,
                           lastAmsTime_, amsVerbose_, amsLogInterval_, amsLogCounter_>>
       ELSE /\ amsInterval_' = IF Len(args) >= 1 THEN ClampInterval(atoi(args[1])) ELSE amsInterval_
            /\ amsTimeout_' = IF Len(args) >= 2 THEN ClampTimeout(atoi(args[2])) ELSE amsTimeout_
            /\ amsLogInterval_' = IF Len(args) >= 3 THEN ClampInterval(atoi(args[3])) ELSE 1
            /\ amsEnabled_' = TRUE
            /\ amsMatching_' = TRUE
            /\ amsVerbose_' = TRUE
            /\ amsLogCounter_' = 0
            /\ amsStartTime_' = loopCounter_ * LoopPeriodMs
            /\ lastAmsTime_' = loopCounter_ * LoopPeriodMs
            /\ tx' = <<Text("=== AMS Started (Continuous Mode) ==="), Ack("ams", "START")>>
            /\ ev' = Event("ams", "start")
    /\ motorCmd' = <<>>
    /\ pc' = "stream"
    /\ UNCHANGED <<presenceVars, loopCounter_, streamVars, matcherInfo, M, regVars, fram>>

\* The range checks of asv, each threshold on its own.
asvStart(v) == IF v < 1000 \/ v > 10000 THEN DefaultVswrStart ELSE v

asvStop(v) == IF v < 1000 \/ v > 5000 THEN DefaultVswrStop ELSE v

asvRestart(v) == IF v < 1000 \/ v > 10000 THEN DefaultVswrRestart ELSE v

\* asv <start> <stop> <restart>; saveOk is the result of the FRAM write.
CmdAsv(args, saveOk) ==
    /\ pc = "shell"
    /\ IF Len(args) < 3
       THEN /\ tx' = <<Text("Usage: asv <start> <stop> <restart>")>>
            /\ ev' = Event("asv", "usage")
            /\ UNCHANGED <<matcherInfo, fram>>
       ELSE IF ~mBoard_
       THEN /\ tx' = <<Text("Error: MotionBoard not available")>>
            /\ ev' = Event("asv", "error")
            /\ UNCHANGED <<matcherInfo, fram>>
       ELSE LET vswrStart == asvStart(atof(args[1]))
                vswrStop == asvStop(atof(args[2]))
                vswrRestart == asvRestart(atof(args[3]))
            IN  /\ matcherInfo' = [matcherInfo EXCEPT !.vswrStart = vswrStart,
                                                      !.vswrStop = vswrStop,
                                                      !.vswrRestart = vswrRestart]
                /\ fram' = IF saveOk
                           THEN [fram EXCEPT !.vswr = <<vswrStart, vswrStop, vswrRestart>>]
                           ELSE fram
                /\ tx' = <<Ack("asv", IF saveOk THEN "OK" ELSE "FRAM_ERROR")>>
                /\ ev' = Event("asv", IF saveOk THEN "ok" ELSE "fram_error")
    /\ motorCmd' = <<>>
    /\ pc' = "stream"
    /\ UNCHANGED <<presenceVars, loopCounter_, streamVars, amsVars, M, regVars>>

\* ------------------------------------------------------------------------
\* The loop tick (DebugMode::handleStreaming)
\* ------------------------------------------------------------------------

\* A variant of StreamDue that waits for more than the interval.
StreamDue_Late(st, currentTime) ==
    /\ streamEnabled[st]
    /\ st = "pos" => mBoard_
    /\ currentTime - lastStreamTime[st] > streamRate[st]

\* Whether a stream sends in a tick at currentTime.
StreamDue(st, currentTime) ==
    /\ streamEnabled[st]
    /\ st = "pos" => mBoard_
    /\ currentTime - lastStreamTime[st] >= streamRate[st]

\* The frames of the streams that send, in the order of the code.
RECURSIVE StreamFrames(_, _)
StreamFrames(order, currentTime) ==
    IF order = <<>> THEN <<>>
    ELSE (IF StreamDue(Head(order), currentTime)
          THEN <<Frame("STREAM", Head(order), "", <<>>)>> ELSE <<>>)
         \o StreamFrames(Tail(order), currentTime)

\* A variant of AmsBlockEntered that does not test the enabled flag.
AmsBlockEntered_NoEnableTest == iSensor_ /\ oSensor_ /\ mBoard_

\* The guard of the AMS block.
AmsBlockEntered == amsEnabled_ /\ iSensor_ /\ oSensor_ /\ mBoard_

\* A variant of TimedOut without the test that a timeout is set.
TimedOut_NoZeroTest(elapsedTotal) == elapsedTotal >= amsTimeout_

\* The timeout test: a timeout of 0 never expires.
TimedOut(elapsedTotal) == amsTimeout_ > 0 /\ elapsedTotal >= amsTimeout_

\* A variant of ReachedStop with a strict comparison.
ReachedStop_Strict(vswr) == vswr < matcherInfo.vswrStop

\* Matching mode: the VSWR is at or below the stop threshold.
ReachedStop(vswr) == vswr <= matcherInfo.vswrStop

\* A variant of ReachedRestart with a strict comparison.
ReachedRestart_Strict(vswr) == vswr > matcherInfo.vswrRestart

\* Monitoring mode: the VSWR is at or above the restart threshold.
ReachedRestart(vswr) == vswr >= matcherInfo.vswrRestart

\* A variant of IntervalElapsed that is satisfied one loop period early.
IntervalElapsed_Early(currentTime) ==
    currentTime - lastAmsTime_ + LoopPeriodMs >= amsInterval_

\* The interval test: at least amsInterval_ ms since the last evaluation.
IntervalElapsed(currentTime) == currentTime - lastAmsTime_ >= amsInterval_

\* What the AMS block of one tick does.  iRes and oRes are the (R, X) the
\* input and output sensors would return, sol what the solver would return;
\* "sampled" says whether the tick read the sensors.  Loop time never wraps
\* within the ticks explored, so the unsigned differences are plain ones.
\* The static amsDebugCounter only paces a debug log line and is left out.
AmsTick(currentTime, iRes, oRes, sol) ==
    LET elapsedTotal == currentTime - amsStartTime_
        logCounter == amsLogCounter_ + 1
        shouldLog == amsVerbose_ /\ logCounter >= amsLogInterval_
        vswr == calculateVSWR(iRes[1], iRes[2])
        sampleTx == IF shouldLog
                    THEN <<Frame("ZI", "", "", iRes), Frame("ZO", "", "", oRes)>>
                    ELSE <<>>
        goals == calculateMatchingGoals(sol)
        sel == selectedGoal(goals)
        step0 == IF sel = 0 THEN goals.step0Goal0 ELSE goals.step0Goal1
        step1 == IF sel = 0 THEN goals.step1Goal0 ELSE goals.step1Goal1
        idle == [path |-> "idle", enabled |-> amsEnabled_, matching |-> amsMatching_,
                 lastAms |-> lastAmsTime_, logCounter |-> amsLogCounter_,
                 tx |-> <<>>, writes |-> <<>>,
                 vswr |-> 0, sampled |-> FALSE, goals |-> NoGoals, sel |-> -1]
        evaluated == [idle EXCEPT !.lastAms = currentTime,
                                  !.logCounter = IF shouldLog THEN 0 ELSE logCounter,
                                  !.sampled = TRUE, !.vswr = vswr, !.tx = sampleTx]
    IN  IF ~AmsBlockEntered THEN idle
        ELSE IF TimedOut(elapsedTotal)
        THEN [idle EXCEPT !.path = "timeout", !.enabled = FALSE, !.matching = FALSE,
                          !.tx = (IF amsVerbose_
                                  THEN <<Frame("AMS", "TIMEOUT", "", <<elapsedTotal>>)>>
                                  ELSE <<>>) \o
                                 <<Ack("ams", "TIMEOUT")>>]
        ELSE IF ~IntervalElapsed(currentTime)
        THEN [idle EXCEPT !.path = "wait"]
        ELSE IF amsMatching_
        THEN IF ReachedStop(vswr)
             THEN [evaluated EXCEPT !.path = "matched", !.matching = FALSE,
                                    !.tx = @ \o (IF amsVerbose_
                                                 THEN <<Frame("AMS", "MATCHED", "", <<vswr>>)>>
                                                 ELSE <<>>)]
             ELSE IF sel >= 0
             THEN [evaluated EXCEPT !.path = "run", !.goals = goals, !.sel = sel,
                                    !.writes = goalMoves(goals, sel),
                                    !.tx = @ \o (IF shouldLog
                                                 THEN <<Frame("AMS", "RUN", "",
                                                              <<sel, vswr, step0, step1>>)>>
                                                 ELSE <<>>)]
             ELSE [evaluated EXCEPT !.path = "nogoal", !.goals = goals, !.sel = sel]
        ELSE IF ReachedRestart(vswr)
        THEN [evaluated EXCEPT !.path = "restart", !.matching = TRUE,
                               !.tx = @ \o (IF amsVerbose_
                                            THEN <<Frame("AMS", "RESTART", "", <<vswr>>)>>
                                            ELSE <<>>)]
        ELSE [evaluated EXCEPT !.path = "monitor"]

\* One pass of handleStreaming: the loop counter, the five streams, then
\* the AMS block.
HandleStreaming(iRes, oRes, sol) ==
    /\ pc \in {"shell", "stream"}
    /\ pc' = "shell"
    /\ loopCounter_ < MaxLoop
    /\ \E currentTime \in {(loopCounter_ + 1) * LoopPeriodMs} :
       \E r \in {AmsTick(currentTime, iRes, oRes, sol)} :
           /\ loopCounter_' = loopCounter_ + 1
           /\ lastStreamTime' = [st \in Streams |->
                                   IF StreamDue(st, currentTime) THEN currentTime
                                   ELSE lastStreamTime[st]]
           /\ amsEnabled_' = r.enabled
           /\ amsMatching_' = r.matching
           /\ lastAmsTime_' = r.lastAms
           /\ amsLogCounter_' = r.logCounter
           /\ tx' = StreamFrames(StreamOrder, currentTime) \o r.tx
           /\ motorCmd' = r.writes
           /\ tarPosReg' = ApplyWrites(tarPosReg, r.writes)
           /\ lastMove' = ApplyKinds(lastMove, r.writes)
           /\ ev' = [op |-> "tick", path |-> r.path, wasEnabled |-> amsEnabled_,
                     wasMatching |-> amsMatching_, now |-> currentTime, vswr |-> r.vswr,
                     sampled |-> r.sampled, goals |-> r.goals, selectedGoal |-> r.sel]
    /\ UNCHANGED <<presenceVars, streamEnabled, streamRate, amsInterval_, amsTimeout_,
                   amsStartTime_, amsVerbose_, amsLogInterval_, matcherInfo, M, originReg,
                   nowPosReg, fram>>

\* ------------------------------------------------------------------------
\* The shell with AMS: inputs and specification
\* ------------------------------------------------------------------------

\* (R, X) averages a sensor may return, in whole ohms: a perfect match, a
\* near match and a poor match.
ImpSamples == {<<50, 0>>, <<45, 5>>, <<10, 40>>}

OutSamples == {<<50, 0>>}

\* Argument lists of ams as the host may type them.
AmsArgs ==
    { <<>>, <<Word_stop>>,
      <<IntText(10), IntText(100)>>,
      <<IntText(20), IntText(0), IntText(2)>> }

\* Argument lists of asv: all ones, stop above start and restart with the
\* start out of range, and too few arguments.
AsvArgs ==
    { <<DecimalText(1000), DecimalText(1000), DecimalText(1000)>>,
      <<DecimalText(11000), DecimalText(5000), DecimalText(2000)>>,
      <<DecimalText(1000)>> }

\* Whether the AMS block of the next tick gets as far as the solver.
SolverReached(iRes, oRes) ==
    AmsTick((loopCounter_ + 1) * LoopPeriodMs, iRes, oRes, NoSolution).path = "nogoal"

\* The solver outputs to draw from: all of them where the solver runs.
SolverDraw(runs) == IF runs THEN SolverOutputs ELSE {NoSolution}

Next ==
    \/ Boot
    \/ \E args \in AmsArgs : CmdAms(args)
    \/ \E args \in AsvArgs : CmdAsv(args, TRUE)
    \/ \E iRes \in ImpSamples, oRes \in OutSamples :
          \E sol \in SolverDraw(SolverReached(iRes, oRes)) : HandleStreaming(iRes, oRes, sol)

Spec == Init /\ [][Next]_vars

\* ------------------------------------------------------------------------
\* Motor commands (DebugMode::handleMotorCommand).  The handlers reach the
\* motors through mBoard_ without testing it, so the commands are sent only
\* to a shell that has a MotionBoard.
\* ------------------------------------------------------------------------

\* The getMotor helper: whether the index names a motor.
getMotor(idx) == idx \in Motors

\* The registers after a command's writes; an origin write also makes the
\* fabric take the written position as its current position at once.
CommandWrites(writes) ==
    /\ motorCmd' = writes
    /\ tarPosReg' = ApplyWrites(tarPosReg, writes)
    /\ lastMove' = ApplyKinds(lastMove, writes)
    /\ originReg' = [i \in Motors |->
                       IF \E k \in 1..Len(writes) : writes[k].motor = i /\ writes[k].kind = "origin"
                       THEN tarPosReg'[i] * 4 ELSE originReg[i]]
    /\ nowPosReg' = [i \in Motors |->
                       IF \E k \in 1..Len(writes) : writes[k].motor = i /\ writes[k].kind = "origin"
                       THEN tarPosReg'[i] ELSE nowPosReg[i]]

\* mr <idx> <position>
CmdMr(args) ==
    /\ pc = "shell" /\ mBoard_
    /\ pc' = "stream"
    /\ IF Len(args) < 2
       THEN /\ tx' = <<Text("Usage: mr [0|1] [position]")>>
            /\ ev' = Event("mr", "usage")
            /\ CommandWrites(<<>>)
       ELSE IF ~getMotor(atoi(args[1]))
       THEN /\ tx' = <<Text("Invalid motor index (0 or 1)")>>
            /\ ev' = Event("mr", "invalid")
            /\ CommandWrites(<<>>)
       ELSE /\ tx' = <<>>
            /\ ev' = Event("mr", "run")
            /\ CommandWrites(RunMotor(atoi(args[1]), atoi(args[2])))
    /\ UNCHANGED <<presenceVars, loopCounter_, streamVars, amsVars, matcherInfo, M, fram>>

\* mf <idx> <position>
CmdMf(args) ==
    /\ pc = "shell" /\ mBoard_
    /\ pc' = "stream"
    /\ IF Len(args) < 2
       THEN /\ tx' = <<Text("Usage: mf [0|1] [position] (WARNING: bypasses limits!)")>>
            /\ ev' = Event("mf", "usage")
            /\ CommandWrites(<<>>)
       ELSE IF ~getMotor(atoi(args[1]))
       THEN /\ tx' = <<Text("Invalid motor index (0 or 1)")>>
            /\ ev' = Event("mf", "invalid")
            /\ CommandWrites(<<>>)
       ELSE /\ tx' = <<Text("WARNING: Force moving motor"), Ack("mf", "OK")>>
            /\ ev' = Event("mf", "force")
            /\ CommandWrites(RunMotorForce(atoi(args[1]), atoi(args[2])))
    /\ UNCHANGED <<presenceVars, loopCounter_, streamVars, amsVars, matcherInfo, M, fram>>

\* mo <idx>: the origin is set to position 0.
CmdMo(args) ==
    /\ pc = "shell" /\ mBoard_
    /\ pc' = "stream"
    /\ IF Len(args) < 1
       THEN /\ tx' = <<Text("Usage: mo [0|1]")>>
            /\ ev' = Event("mo", "usage")
            /\ CommandWrites(<<>>)
       ELSE IF ~getMotor(atoi(args[1]))
       THEN /\ tx' = <<Text("Invalid motor index (0 or 1)")>>
            /\ ev' = Event("mo", "invalid")
            /\ CommandWrites(<<>>)
       ELSE /\ tx' = <<Text("Motor origin set")>>
            /\ ev' = Event("mo", "origin")
            /\ CommandWrites(SetMotorOrigin(atoi(args[1]), 0))
    /\ UNCHANGED <<presenceVars, loopCounter_, streamVars, amsVars, matcherInfo, M, fram>>

\* msl <idx> <min,max,lower,upper[,minCap,maxCap]>; limitsRet and capsRet
\* say whether the two FRAM writes succeed.  The four limits are stored as
\* typed; the capacitances only when both are given.
CmdMsl(args, limitsRet, capsRet) ==
    /\ pc = "shell" /\ mBoard_
    /\ pc' = "stream"
    /\ IF Len(args) < 2
       THEN /\ tx' = <<Text("Usage: msl [0|1] [min,max,lower,upper,minCap,maxCap]")>>
            /\ ev' = Event("msl", "usage")
            /\ UNCHANGED <<M, matcherInfo, fram>>
       ELSE IF ~getMotor(atoi(args[1]))
       THEN /\ tx' = <<Text("Invalid motor index (0 or 1)")>>
            /\ ev' = Event("msl", "invalid")
            /\ UNCHANGED <<M, matcherInfo, fram>>
       ELSE IF Len(SplitFields(args[2], 6)) < 4
       THEN /\ tx' = <<Text("Invalid format. Use: msl [0|1] min,max,lower,upper[,minCap,maxCap]")>>
            /\ ev' = Event("msl", "format")
            /\ UNCHANGED <<M, matcherInfo, fram>>
       ELSE \E idx \in {atoi(args[1])}, f \in {SplitFields(args[2], 6)} :
            \E lim \in {<<atoi(f[1]), atoi(f[2]), atoi(f[3]), atoi(f[4])>>} :
              LET hasCaps == Len(f) >= 6
                  withLim == WithLimits(M[idx], lim)
                  saved == limitsRet /\ (hasCaps => capsRet)
              IN  /\ M' = [M EXCEPT ![idx] =
                              IF hasCaps
                              THEN [withLim EXCEPT !.minCap = atoi(f[5]), !.maxCap = atoi(f[6])]
                              ELSE withLim]
                  /\ matcherInfo' =
                        [matcherInfo EXCEPT
                            !.motorLimits[idx] = lim,
                            !.motorCaps[idx] = IF hasCaps THEN <<atoi(f[5]), atoi(f[6])>> ELSE @]
                  /\ fram' = IF limitsRet
                             THEN [fram EXCEPT !.motorLimits = matcherInfo'.motorLimits]
                             ELSE fram
                  /\ tx' = <<Ack("msl", IF saved THEN "OK" ELSE "SAVE_FAIL")>>
                  /\ ev' = Event("msl", IF saved THEN "ok" ELSE "save_fail")
    /\ motorCmd' = <<>>
    /\ UNCHANGED <<presenceVars, loopCounter_, streamVars, amsVars, regVars>>

\* The motor fabric: the motor reaches the position in its target register.
FabricMove(i) ==
    /\ pc \in {"shell", "stream"}
    /\ nowPosReg[i] /= tarPosReg[i]
    /\ nowPosReg' = [nowPosReg EXCEPT ![i] = tarPosReg[i]]
    /\ tx' = <<>>
    /\ motorCmd' = <<>>
    /\ ev' = Event("fabric", "arrived")
    /\ UNCHANGED <<pc, presenceVars, loopCounter_, streamVars, amsVars, matcherInfo, M,
                   tarPosReg, originReg, lastMove, fram>>

\* ------------------------------------------------------------------------
\* The shell with the motor commands: inputs and specification
\* ------------------------------------------------------------------------

MrArgs == { <<IntText(0), IntText(0)>>, <<IntText(0), IntText(70000)>>, <<IntText(2), IntText(0)>> }

MfArgs == { <<IntText(0), IntText(100)>> }

MoArgs == { <<IntText(0)>> }

\* msl arguments: every relation inverted, a record with capacitances, and
\* too few fields.
MslArgs ==
    { <<IntText(0), CommaJoin(<<IntText(100), IntText(0), IntText(50), IntText(10)>>)>>,
      <<IntText(0), CommaJoin(<<IntText(0), IntText(64000), IntText(4000), IntText(60000),
                                IntText(0), IntText(50000)>>)>>,
      <<IntText(0), CommaJoin(<<IntText(0), IntText(64000)>>)>> }

InitConfig == InitWith(FramLimitImages, {DefaultVswr}, {<<TRUE, TRUE, TRUE>>})

NextConfig ==
    \/ Boot
    \/ \E args \in MrArgs : CmdMr(args)
    \/ \E args \in MfArgs : CmdMf(args)
    \/ \E args \in MoArgs : CmdMo(args)
    \/ \E args \in MslArgs, limitsRet \in BOOLEAN, capsRet \in BOOLEAN :
          CmdMsl(args, limitsRet, capsRet)
    \/ \E i \in Motors : FabricMove(i)
    \/ \E iRes \in ImpSamples, oRes \in OutSamples :
          \E sol \in SolverDraw(SolverReached(iRes, oRes)) : HandleStreaming(iRes, oRes, sol)

SpecConfig == InitConfig /\ [][NextConfig]_vars

\* ------------------------------------------------------------------------
\* The shell with ams and amr and goals near the edge of the capacitance
\* band: inputs and specification
\* ------------------------------------------------------------------------

\* amr <Rm> <Xm> [Rpm] [Xpm]: one run of the solver on typed impedances
\* and a move to the selected goal.  sol is what the solver returns.
CmdAmr(args, sol) ==
    /\ pc = "shell"
    /\ pc' = "stream"
    /\ IF Len(args) < 2
       THEN /\ tx' = <<Text("Usage: amr <Rm> <Xm> [Rpm] [Xpm]")>>
            /\ ev' = Event("amr", "usage")
            /\ CommandWrites(<<>>)
       ELSE IF ~mBoard_
       THEN /\ tx' = <<Text("Error: MotionBoard not available")>>
            /\ ev' = Event("amr", "error")
            /\ CommandWrites(<<>>)
       ELSE \E goals \in {calculateMatchingGoals(sol)} :
            \E sel \in {selectedGoal(goals)} :
              /\ CommandWrites(goalMoves(goals, sel))
              /\ tx' = IF sel >= 0
                       THEN <<Text("=== Auto Matching Run ==="),
                              Frame("AMR", "", "",
                                    <<sel,
                                      IF sel = 0 THEN goals.step0Goal0 ELSE goals.step0Goal1,
                                      IF sel = 0 THEN goals.step1Goal0 ELSE goals.step1Goal1>>),
                              Ack("amr", "OK")>>
                       ELSE <<Text("=== Auto Matching Run ==="), Ack("amr", "NO_VALID_GOAL")>>
              /\ ev' = [Event("amr", IF sel >= 0 THEN "run" ELSE "nogoal")
                          EXCEPT !.goals = goals, !.selectedGoal = sel,
                                 !.vswr = calculateVSWR(atof(args[1]) \div 1000,
                                                        atof(args[2]) \div 1000)]
    /\ UNCHANGED <<presenceVars, loopCounter_, streamVars, amsVars, matcherInfo, M, fram>>

\* Solver results whose capacitances lie in the band 0..1000 pF: goal 0 at
\* 10 pF for motor 0 with goal 1 at 500 pF, both goals at 10 pF and 995 pF,
\* and no solution.
EdgeSolverOutputs ==
    { NoSolution,
      [VVC0Goal0 |-> 10000, VVC1Goal0 |-> 250000, valid0 |-> TRUE,
       VVC0Goal1 |-> 500000, VVC1Goal1 |-> 250000, valid1 |-> TRUE],
      [VVC0Goal0 |-> 10000, VVC1Goal0 |-> 995000, valid0 |-> TRUE,
       VVC0Goal1 |-> 995000, VVC1Goal1 |-> 10000, valid1 |-> TRUE] }

\* Whole-ohm impedances typed to amr, and too few arguments.
AmrArgs ==
    { <<DecimalText(10000), DecimalText(40000)>>,
      <<DecimalText(10000)>> }

\* ams with the defaults, ams stop, and an interval of three loop periods
\* with a timeout of ten.
EdgeAmsArgs == { <<>>, <<Word_stop>>, <<IntText(30), IntText(100)>> }

InitEdge == InitWith({[i \in Motors |-> DefaultLimits]}, {DefaultVswr}, {<<TRUE, TRUE, TRUE>>})

NextEdge ==
    \/ Boot
    \/ \E args \in EdgeAmsArgs : CmdAms(args)
    \/ \E args \in AmrArgs, sol \in EdgeSolverOutputs : CmdAmr(args, sol)
    \/ \E iRes \in ImpSamples, oRes \in OutSamples :
          \E sol \in (IF SolverReached(iRes, oRes) THEN EdgeSolverOutputs ELSE {NoSolution}) :
             HandleStreaming(iRes, oRes, sol)

SpecEdge == InitEdge /\ [][NextEdge]_vars

\* ------------------------------------------------------------------------
\* The shell with ams in its argument forms and ass: inputs and
\* specification
\* ------------------------------------------------------------------------

\* The range checks of ass.
assInterval(v) == IF v < 1 \/ v > 1000 THEN 10 ELSE v

assTimeout(v) == IF v /= 0 /\ v < 100 THEN 100 ELSE IF v > 60000 THEN 60000 ELSE v

\* ass <interval> <timeout> <logInterval>: the settings are stored in
\* matcherInfo and written to FRAM; saveOk is the result of the write.
CmdAss(args, saveOk) ==
    /\ pc = "shell"
    /\ pc' = "stream"
    /\ IF Len(args) < 3
       THEN /\ tx' = <<Text("Usage: ass <interval> <timeout> <logInterval>")>>
            /\ ev' = Event("ass", "usage")
            /\ UNCHANGED <<matcherInfo, fram>>
       ELSE IF ~mBoard_
       THEN /\ tx' = <<Text("Error: MotionBoard not available")>>
            /\ ev' = Event("ass", "error")
            /\ UNCHANGED <<matcherInfo, fram>>
       ELSE \E set \in {<<assInterval(atoi(args[1])), assTimeout(atoi(args[2])),
                           assInterval(atoi(args[3]))>>} :
              /\ matcherInfo' = [matcherInfo EXCEPT !.amsInterval = set[1],
                                                    !.amsTimeout = set[2],
                                                    !.amsLogInterval = set[3]]
              /\ fram' = IF saveOk THEN [fram EXCEPT !.ams = set] ELSE fram
              /\ tx' = IF saveOk
                       THEN <<Text("AMS settings saved"), Ack("ass", "OK")>>
                       ELSE <<Text("Error: Failed to save AMS settings to FRAM"),
                              Ack("ass", "FRAM_ERROR")>>
              /\ ev' = Event("ass", IF saveOk THEN "ok" ELSE "fram_error")
    /\ motorCmd' = <<>>
    /\ UNCHANGED <<presenceVars, loopCounter_, streamVars, amsVars, M, regVars>>

\* ams as the host may type it: bare, with the word start, with the word
\* start and three numbers, with three numbers, and with the word stop.
StartAmsArgs ==
    { <<>>,
      <<Word_start>>,
      <<Word_start, IntText(20), IntText(200), IntText(3)>>,
      <<IntText(20), IntText(200), IntText(3)>>,
      <<Word_stop>> }

AssArgs == { <<IntText(30), IntText(0), IntText(5)>>, <<IntText(30)>> }

InitStart == InitWith({[i \in Motors |-> DefaultLimits]}, {DefaultVswr}, Presence)

NextStart ==
    \/ Boot
    \/ \E args \in StartAmsArgs : CmdAms(args)
    \/ \E args \in AssArgs, saveOk \in BOOLEAN : CmdAss(args, saveOk)
    \/ \E iRes \in ImpSamples, oRes \in OutSamples : HandleStreaming(iRes, oRes, NoSolution)

SpecStart == InitStart /\ [][NextStart]_vars

\* ------------------------------------------------------------------------
\* RFSensor::calculateAveragedImpedance, poll by poll
\* ------------------------------------------------------------------------

\* The number of polls of the hold status (int timeout = 100).
HoldTimeout_Longer == 100 + 1

HoldTimeout == 100

kFftLength == 1024

\* The averaging count after its range checks.
avgCountOf(avgCount, avgCount_) ==
    LET a == IF avgCount = -1 THEN avgCount_ ELSE avgCount
    IN  IF a <= 0 THEN 1 ELSE IF a > kFftLength THEN kFftLength ELSE a

\* The call: the averaging count is fixed and hold is raised; gate says
\* whether the sensor has a gate register (setFftHold does nothing and
\* checkFftHoldStatus returns false without one).
SampleCall(avgCount, avgCount_, gate) ==
    /\ rt.routine = "none"
    /\ rt' = [routine |-> "sample", at |-> "poll", gate |-> gate, hold |-> gate,
              timeout |-> HoldTimeout, polls |-> 0,
              hold_ok_v |-> FALSE, hold_ok_i |-> FALSE,
              avgCount |-> avgCountOf(avgCount, avgCount_), idx |-> 0,
              readUnheld |-> FALSE, zeroResult |-> TRUE]
    /\ UNCHANGED shellVars

\* One evaluation of while (timeout-- > 0) and, when it is entered, of the
\* loop body; v and i are the hold flags the two status reads return.  When
\* the loop ends, the test after it either releases hold and returns the
\* zero result or goes on to the buffer.
SamplePoll(v, i) ==
    /\ rt.routine = "sample" /\ rt.at = "poll"
    /\ IF rt.timeout > 0
       THEN \E okv \in {rt.gate /\ v}, oki \in {rt.gate /\ i} :
              rt' = [rt EXCEPT !.timeout = @ - 1, !.polls = @ + 1,
                               !.hold_ok_v = okv, !.hold_ok_i = oki,
                               !.at = IF okv /\ oki THEN "read" ELSE "poll"]
       ELSE rt' = IF ~rt.hold_ok_v \/ ~rt.hold_ok_i
                  THEN [rt EXCEPT !.timeout = @ - 1, !.hold = FALSE, !.at = "done"]
                  ELSE [rt EXCEPT !.timeout = @ - 1, !.at = "read"]
    /\ UNCHANGED shellVars

\* One pass of the averaging loop: one entry of each FFT buffer is read.
SampleRead ==
    /\ rt.routine = "sample" /\ rt.at = "read" /\ rt.idx < rt.avgCount
    /\ rt' = [rt EXCEPT !.idx = @ + 1,
                        !.readUnheld = @ \/ ~rt.hold \/ ~rt.hold_ok_v \/ ~rt.hold_ok_i]
    /\ UNCHANGED shellVars

\* The result is computed, hold is released and the routine returns.
SampleRelease ==
    /\ rt.routine = "sample" /\ rt.at = "read" /\ rt.idx = rt.avgCount
    /\ rt' = [rt EXCEPT !.hold = FALSE, !.at = "done", !.zeroResult = FALSE]
    /\ UNCHANGED shellVars

\* The caller takes the result.
SampleReturn ==
    /\ rt.routine = "sample" /\ rt.at = "done"
    /\ rt' = NoRoutine
    /\ UNCHANGED shellVars

InitSample == InitWith({[i \in Motors |-> DefaultLimits]}, {DefaultVswr}, {<<TRUE, TRUE, TRUE>>})

\* The member avgCount_ is 3 (set by setAvgCount); the argument is the
\* default -1, 0 or 2.
NextSample ==
    \/ \E avgCount \in {-1, 0, 2}, gate \in BOOLEAN : SampleCall(avgCount, 3, gate)
    \/ \E v \in BOOLEAN, i \in BOOLEAN : SamplePoll(v, i)
    \/ SampleRead
    \/ SampleRelease
    \/ SampleReturn

SpecSample == InitSample /\ [][NextSample]_vars

\* ------------------------------------------------------------------------
\* MotorController: override RPM, rewind (mrw) and index search (mfi)
\* ------------------------------------------------------------------------

MOTOR_REWIND_TARGET == -100000

MOTOR_REWIND_POLL_MS == 10

MOTOR_REWIND_OFFSET == 1000

MOTOR_REWIND_TIMEOUT_MS_Longer == 25000 + 10

MOTOR_REWIND_TIMEOUT_MS == 25000

MOTOR_REWIND_THRESHOLD == 15

MOTOR_REWIND_STALL_COUNT_Three == 2 + 1

MOTOR_REWIND_STALL_COUNT == 2

MOTOR_REWIND_OVERRIDE_RPM == 30

Abs(x) == IF x < 0 THEN -x ELSE x

\* What the motor does between two polls is the environment's choice.  The
\* steps it moves towards the rewind target in one 10 ms poll: the measured
\* normal movement, and the irregular ones (the threshold itself, and none).  MaxIrregular bounds how many polls of one rewind are
\* irregular; RewindStarts are the positions a rewind starts from.
NormalStep == 33

IrregularSteps == {MOTOR_REWIND_THRESHOLD, 0}

MaxIrregular == 3

RewindStarts == {4000}

\* The steps the motor moves in the positive direction while rewindMotor
\* waits 110 ms after its loop: towards the stop position after a stall,
\* on towards the rewind target after a timeout.
SettleMoves(completed) == IF completed THEN {0, MOTOR_REWIND_OFFSET} ELSE {-363}

\* MotionBoard::initialize brings up the two GPIO blocks of a motor and,
\* when a base address is given, its extended block; a failure of the first
\* returns before the extended block is touched.
MotorInitialize(gpioOk, extOk) ==
    /\ rt.routine = "none"
    /\ rt' = [routine |-> "idle", gpioInitialized |-> gpioOk,
              extGpioInitialized |-> gpioOk /\ extOk,
              overrideRpmValue |-> 0]
    /\ UNCHANGED shellVars

setOverrideRpm(m, rpm) == IF m.extGpioInitialized THEN rpm ELSE m.overrideRpmValue

\* mor <idx> <rpm>
CmdMor(rpm) ==
    /\ rt.routine = "idle"
    /\ rt' = [rt EXCEPT !.overrideRpmValue = setOverrideRpm(rt, rpm)]
    /\ UNCHANGED shellVars

\* The motor state a routine hands back to the shell.
MotorIdle(m) ==
    [routine |-> "idle", gpioInitialized |-> m.gpioInitialized,
     extGpioInitialized |-> m.extGpioInitialized,
     overrideRpmValue |-> m.overrideRpmValue]

\* mrw <idx>: rewindMotor up to its loop.  Without GPIO it returns at once
\* (readPos is then 0); otherwise the override RPM is set and the target
\* register gets the rewind target.
RewindCall(startPos) ==
    /\ rt.routine = "idle"
    /\ rt' = IF ~rt.gpioInitialized
             THEN [routine |-> "rewind", at |-> "done",
                   gpioInitialized |-> rt.gpioInitialized,
                   extGpioInitialized |-> rt.extGpioInitialized,
                   overrideRpmValue |-> rt.overrideRpmValue, tarPos |-> 0,
                   pos |-> 0, startPos |-> 0, prevPos |-> 0, stallCount |-> 0,
                   elapsedMs |-> 0, stepsTaken |-> 0, irregular |-> 0, below |-> <<>>,
                   completed |-> FALSE, finalPos |-> 0, movement |-> 0]
             ELSE [routine |-> "rewind", at |-> "poll",
                   gpioInitialized |-> rt.gpioInitialized,
                   extGpioInitialized |-> rt.extGpioInitialized,
                   overrideRpmValue |-> setOverrideRpm(rt, MOTOR_REWIND_OVERRIDE_RPM),
                   tarPos |-> MOTOR_REWIND_TARGET,
                   pos |-> startPos, startPos |-> startPos, prevPos |-> startPos,
                   stallCount |-> 0, elapsedMs |-> 0, stepsTaken |-> 0, irregular |-> 0,
                   below |-> <<>>,
                   completed |-> FALSE, finalPos |-> 0, movement |-> 0]
    /\ UNCHANGED shellVars

\* One pass of the rewind loop and the loop test that follows it; d is the
\* number of steps the motor moved towards the rewind target since the
\* previous read.  below keeps, for the last two polls, whether the motor
\* moved fewer steps than the threshold, stepsTaken the number of polls.
RewindPoll(d) ==
    /\ rt.routine = "rewind" /\ rt.at = "poll"
    /\ d = NormalStep \/ rt.irregular < MaxIrregular
    /\ LET elapsedMs == rt.elapsedMs + MOTOR_REWIND_POLL_MS
           currentPos == rt.pos - d
           diff == rt.prevPos - currentPos
           stallCount == IF diff < MOTOR_REWIND_THRESHOLD THEN rt.stallCount + 1 ELSE 0
           stalled == diff < MOTOR_REWIND_THRESHOLD /\ stallCount >= MOTOR_REWIND_STALL_COUNT
           env == [rt EXCEPT !.pos = currentPos, !.stepsTaken = @ + 1,
                             !.irregular = IF d = NormalStep THEN @ ELSE @ + 1,
                             !.below = IF Len(@) < 2 THEN Append(@, d < MOTOR_REWIND_THRESHOLD)
                                       ELSE <<@[2], d < MOTOR_REWIND_THRESHOLD>>]
       IN rt' = IF stalled
                THEN [env EXCEPT !.elapsedMs = elapsedMs, !.stallCount = stallCount,
                                 !.tarPos = currentPos + MOTOR_REWIND_OFFSET,
                                 !.completed = TRUE, !.at = "settle"]
                ELSE [env EXCEPT !.elapsedMs = elapsedMs, !.stallCount = stallCount,
                                 !.prevPos = currentPos,
                                 !.at = IF elapsedMs < MOTOR_REWIND_TIMEOUT_MS
                                        THEN "poll" ELSE "settle"]
    /\ UNCHANGED shellVars

\* After the loop: the settle wait, setOverrideRpm(0), the final read and
\* the movement; d is what the motor moved meanwhile.
RewindSettle(d) ==
    /\ rt.routine = "rewind" /\ rt.at = "settle"
    /\ d \in SettleMoves(rt.completed)
    /\ LET finalPos == rt.pos + d
           movement == rt.startPos - finalPos
       IN rt' = [rt EXCEPT !.pos = finalPos, !.overrideRpmValue = setOverrideRpm(rt, 0),
                           !.finalPos = finalPos, !.movement = Abs(movement),
                           !.at = "done"]
    /\ UNCHANGED shellVars

\* The shell prints the MRW line and goes on.
RewindReturn ==
    /\ rt.routine = "rewind" /\ rt.at = "done"
    /\ rt' = MotorIdle(rt)
    /\ UNCHANGED shellVars

\* What the index search meets is again the environment's choice.  A search
\* starts at a position in FindStarts for a target in FindTargets at an RPM in FindRpms;
\* at 30 RPM the motor runs IndexStep steps in one 1 ms poll.  The motor
\* runs towards the target and may stop for good at any poll ("held"), or
\* it never gets going and shakes by one step ("dither").  The index
\* register reads 0 until the first index mark has passed and the marks'
\* positions IndexValues after that, in this order; it may read non-zero
\* from the start, and it changes only on a poll in which the motor runs.
FindStarts == {0}

FindTargets == {6, -6}

FindRpms == {30}

IndexStep == TruncDiv(TruncDiv(MOTOR_REWIND_OVERRIDE_RPM * 6400, 60), 1000)

IndexValues == <<0, 640, 7040>>

IndexRank(v) == CHOOSE k \in 1..Len(IndexValues) : IndexValues[k] = v

stuckThreshold_Longer == 2000 + 1

stuckThreshold == 2000

pollIntervalUs == 1000

\* int timeoutMs of findIndexPosition, from the distance and the RPM.
timeoutMsOf(distance, rpm) ==
    LET stepsPerSec == TruncDiv(rpm * 6400, 60)
    IN IF stepsPerSec > 0
       THEN TruncDiv(distance * 1000, stepsPerSec) * 2 + 5000
       ELSE 30000

\* mfi <idx> <targetPos> <rpm>: findIndexPosition up to its loop.  Without
\* the extended GPIO block it returns at once with the position read.
FindIndexCall(targetPos, rpm, motion, idx0) ==
    /\ rt.routine = "idle"
    /\ \E startPos \in (IF rt.gpioInitialized THEN FindStarts ELSE {0}) :
         rt' = IF ~rt.extGpioInitialized
               THEN [routine |-> "find_index", at |-> "done",
                     gpioInitialized |-> rt.gpioInitialized,
                     extGpioInitialized |-> rt.extGpioInitialized,
                     overrideRpmValue |-> rt.overrideRpmValue, tarPos |-> 0,
                     targetPos |-> targetPos, startPos |-> startPos, direction |-> 0,
                     pos |-> startPos, motion |-> "held", prevIndexPos |-> 0,
                     found |-> FALSE, indexPos |-> 0, motorPosAtIndex |-> 0,
                     lastMovingPos |-> startPos, stuckCounter |-> 0,
                     elapsedUs |-> 0, stepsTaken |-> 0, timeoutUs |-> 0,
                     exit |-> "no extended GPIO",
                     firstSeen |-> <<>>, finalPos |-> startPos]
               ELSE LET distance == Abs(targetPos - startPos)
                        timeoutUs == timeoutMsOf(distance, rpm) * 1000
                    IN [routine |-> "find_index",
                        at |-> IF 0 < timeoutUs THEN "poll" ELSE "finish",
                        gpioInitialized |-> rt.gpioInitialized,
                        extGpioInitialized |-> rt.extGpioInitialized,
                        overrideRpmValue |-> setOverrideRpm(rt, rpm),
                        tarPos |-> targetPos,
                        targetPos |-> targetPos, startPos |-> startPos,
                        direction |-> IF targetPos > startPos THEN 1 ELSE -1,
                        pos |-> startPos, motion |-> motion, prevIndexPos |-> idx0,
                        found |-> FALSE, indexPos |-> 0, motorPosAtIndex |-> 0,
                        lastMovingPos |-> startPos, stuckCounter |-> 0,
                        elapsedUs |-> 0, stepsTaken |-> 0, timeoutUs |-> timeoutUs,
                        exit |-> "timeout",
                        firstSeen |-> <<>>, finalPos |-> 0]
    /\ UNCHANGED shellVars

\* The position the motor is at when the next poll reads it.
MotorMove(motion) ==
    IF motion = "run" THEN rt.pos + rt.direction * IndexStep
    ELSE IF motion = "held" THEN rt.pos
    ELSE IF rt.pos = rt.startPos THEN rt.startPos - rt.direction ELSE rt.startPos

\* One pass of the search loop and the loop test that follows it.  motion
\* is what the motor does up to this poll, idx what the index register
\* reads, rpm1 and rpm2 what the RPM register reads on the two reads of
\* the stop test.  firstSeen keeps the first non-zero index reading of a
\* poll with the position read at that poll.
FindIndexPoll(motion, idx, rpm1, rpm2) ==
    /\ rt.routine = "find_index" /\ rt.at = "poll"
    /\ motion = rt.motion \/ (rt.motion = "run" /\ motion = "held")
    /\ IndexRank(idx) >= IndexRank(rt.prevIndexPos)
    /\ idx # rt.prevIndexPos => motion = "run"
    /\ LET elapsedUs == rt.elapsedUs + pollIntervalUs
           currentPos == MotorMove(motion)
           capture == ~rt.found /\ idx # 0 /\ idx # rt.prevIndexPos
           reachedTarget == IF rt.direction > 0 THEN currentPos >= rt.targetPos
                                               ELSE currentPos <= rt.targetPos
           stopped == rpm1 = 0 /\ rpm2 = 0
           still == currentPos = rt.lastMovingPos
           stuck == still /\ rt.stuckCounter + 1 >= stuckThreshold
           exit == IF reachedTarget THEN "target"
                   ELSE IF stopped THEN "stopped"
                   ELSE IF stuck THEN "stuck"
                   ELSE IF elapsedUs < rt.timeoutUs THEN "" ELSE "timeout"
           seen == [rt EXCEPT !.pos = currentPos, !.motion = motion, !.stepsTaken = @ + 1,
                              !.firstSeen = IF @ = <<>> /\ idx # 0
                                            THEN <<idx, currentPos>> ELSE @]
           read == [seen EXCEPT !.elapsedUs = elapsedUs, !.prevIndexPos = idx,
                                !.found = @ \/ capture,
                                !.indexPos = IF capture THEN idx ELSE @,
                                !.motorPosAtIndex = IF capture THEN currentPos ELSE @,
                                !.at = IF exit = "" THEN "poll" ELSE "finish",
                                !.exit = IF exit = "" THEN @ ELSE exit]
       IN rt' = IF reachedTarget \/ stopped THEN read
                ELSE IF still THEN [read EXCEPT !.stuckCounter = @ + 1]
                ELSE [read EXCEPT !.lastMovingPos = currentPos, !.stuckCounter = 0]
    /\ UNCHANGED shellVars

\* After the loop: setOverrideRpm(0) and the final read.
FindIndexFinish ==
    /\ rt.routine = "find_index" /\ rt.at = "finish"
    /\ rt' = [rt EXCEPT !.overrideRpmValue = setOverrideRpm(rt, 0),
                        !.finalPos = rt.pos, !.at = "done"]
    /\ UNCHANGED shellVars

\* The shell prints the MFI line and goes on.
FindIndexReturn ==
    /\ rt.routine = "find_index" /\ rt.at = "done"
    /\ rt' = MotorIdle(rt)
    /\ UNCHANGED shellVars

\* Boot homing, MotionBoard::initializeMotorByIndex for motor 0, is followed
\* call by call; what rewindMotor and findIndexPosition meet is the
\* environment's choice, as above, and only their results are kept here.
\* The fabric's part is taken from the specification: armed by
\* SetMotorOriginOnIndex, it sets the position register to the armed
\* position when the next index mark passes.
SavedIndexPositions == {640, 1000}

RawIndexPositions == {610, 640}

\* The position register at the index mark.
OriginOnIndex(armed, position, raw) == IF armed THEN position ELSE raw

\* posOffset after initializeMotorByIndex: no statement of it, or of any
\* other routine, assigns posOffset.
posOffsetAfterInit_Twice(m, savedIndexPos, raw) == m.posOffset + savedIndexPos - raw

posOffsetAfterInit(m, savedIndexPos, raw) == m.posOffset

\* The shell's variables but the motors.
shellVarsButM == <<pc, iSensor_, oSensor_, mBoard_, loopCounter_, streamEnabled, streamRate,
                   lastStreamTime, amsEnabled_, amsMatching_, amsInterval_, amsTimeout_,
                   amsStartTime_, lastAmsTime_, amsVerbose_, amsLogInterval_, amsLogCounter_,
                   matcherInfo, tarPosReg, originReg, nowPosReg, lastMove, fram, tx,
                   motorCmd, ev, cal_>>

\* Step 1: rewindMotor(); the result is logged and not tested.
\* posOffsetAssigned keeps whether a statement of the routine has assigned
\* posOffset: none does.
InitByIndexRewind(completed, savedIndexPos) ==
    /\ rt.routine = "idle" /\ rt.gpioInitialized
    /\ rt' = [routine |-> "initByIndex", at |-> "arm",
              gpioInitialized |-> rt.gpioInitialized,
              extGpioInitialized |-> rt.extGpioInitialized,
              overrideRpmValue |-> setOverrideRpm(rt, 0),
              rewindCompleted |-> completed, savedIndexPos |-> savedIndexPos,
              armed |-> FALSE, found |-> FALSE, rawAtIndex |-> 0, motorPosAtIndex |-> 0,
              posOffsetAssigned |-> FALSE, result |-> 0]
    /\ UNCHANGED shellVars

\* Step 2: SetMotorOriginOnIndex(matcherInfo.firstIndexPos[motorIdx]).
InitByIndexArm ==
    /\ rt.routine = "initByIndex" /\ rt.at = "arm"
    /\ rt' = [rt EXCEPT !.armed = TRUE, !.at = "search"]
    /\ UNCHANGED shellVars

\* Step 3: findIndexPosition(15000, MOTOR_REWIND_OVERRIDE_RPM) and the
\* test of its result.  found is whether an index was captured (never
\* without the extended block), raw what the position register read at the
\* mark before the fabric acted; motorPosAtIndex is readPos() at the mark.
InitByIndexSearch(found, raw) ==
    /\ rt.routine = "initByIndex" /\ rt.at = "search"
    /\ found => rt.extGpioInitialized
    /\ IF found
       THEN \E atIndex \in {OriginOnIndex(rt.armed, rt.savedIndexPos, raw)},
               offset \in {posOffsetAfterInit(M[0], rt.savedIndexPos, raw)} :
              /\ M' = [M EXCEPT ![0].posOffset = offset]
              /\ rt' = [rt EXCEPT !.found = TRUE, !.armed = FALSE, !.rawAtIndex = atIndex,
                                  !.motorPosAtIndex = atIndex + offset,
                                  !.overrideRpmValue = setOverrideRpm(rt, 0),
                                  !.at = "done", !.result = 0]
       ELSE /\ M' = M
            /\ rt' = [rt EXCEPT !.overrideRpmValue = setOverrideRpm(rt, 0),
                                !.at = "done", !.result = -1]
    /\ UNCHANGED shellVarsButM

InitByIndexReturn ==
    /\ rt.routine = "initByIndex" /\ rt.at = "done"
    /\ rt' = MotorIdle(rt)
    /\ UNCHANGED shellVars

InitHoming == InitWith({[i \in Motors |-> DefaultLimits]}, {DefaultVswr}, {<<TRUE, TRUE, TRUE>>})

\* Boot code runs before the shell (MotorInitialize, boot homing); the
\* homing commands are followed on a shell that has just booted, and the
\* shell's own steps wait for a routine to return.
JustBooted == pc = "shell" /\ ev.op = "boot"

NextHoming ==
    \/ pc = "boot" /\ \E gpioOk \in BOOLEAN, extOk \in BOOLEAN : MotorInitialize(gpioOk, extOk)
    \/ pc = "boot" /\ \E completed \in BOOLEAN, savedIndexPos \in SavedIndexPositions :
          InitByIndexRewind(completed, savedIndexPos)
    \/ InitByIndexArm
    \/ \E found \in BOOLEAN, raw \in RawIndexPositions : InitByIndexSearch(found, raw)
    \/ InitByIndexReturn
    \/ rt.routine = "idle" /\ Boot
    \/ rt.routine = "idle" /\ CmdAms(<<>>)
    \/ rt.routine = "idle" /\ \E iRes \in {<<10, 40>>}, oRes \in OutSamples :
          HandleStreaming(iRes, oRes, NoSolution)
    \/ JustBooted /\ \E rpm \in {0, 50} : CmdMor(rpm)
    \/ JustBooted /\ \E startPos \in RewindStarts : RewindCall(startPos)
    \/ \E d \in {NormalStep} \cup IrregularSteps : RewindPoll(d)
    \/ \E d \in SettleMoves(TRUE) \cup SettleMoves(FALSE) : RewindSettle(d)
    \/ RewindReturn
    \/ JustBooted /\ \E targetPos \in FindTargets, rpm \in FindRpms, motion \in {"run", "dither"},
          idx0 \in {IndexValues[1], IndexValues[2]} :
            FindIndexCall(targetPos, rpm, motion, idx0)
    \/ \E motion \in {"run", "held", "dither"}, idx \in {IndexValues[k] : k \in 1..Len(IndexValues)},
          rpm1 \in {0, 30}, rpm2 \in {0, 30} :
            FindIndexPoll(motion, idx, rpm1, rpm2)
    \/ FindIndexFinish
    \/ FindIndexReturn

SpecHoming == InitHoming /\ [][NextHoming]_vars

\* ------------------------------------------------------------------------
\* MotionBoard's I2C transfers (framRead, framWrite) and the serial send
\* ------------------------------------------------------------------------

\* What the controllers report is the environment's choice: whether the
\* polled transfer succeeds, and for how many reads of the status the bus
\* stays busy (the transmitter stays sending) after it: 0..MaxBusy reads,
\* or NeverIdle.
MaxBusy == 3

NeverIdle == -1

BusyTimes == {NeverIdle} \cup 0..MaxBusy

\* Address and length of the records for the stream settings, the motor
\* capacitances, the VSWR settings and the AMS settings.
FramRecords == {<<264, 12>>, <<284, 16>>, <<332, 12>>, <<344, 12>>}

SendLengths == {1, 20}

\* framRead / framWrite up to the first transfer.
FramCall(op, record) ==
    /\ rt.routine = "none"
    /\ rt' = [routine |-> op, at |-> "i2cSend", framAddr |-> record[1], len |-> record[2],
              sendLen |-> IF op = "framWrite" THEN 4 + record[2] ELSE 4,
              recvLen |-> IF op = "framWrite" THEN 1 ELSE record[2] + 1,
              busyFor |-> 0, result |-> 0]
    /\ UNCHANGED shellVars

\* i2cSend / i2cRecv up to the wait: the polled transfer of the driver; a
\* failure returns -1 through the caller.
I2cTransfer(ok, busyFor) ==
    /\ rt.routine \in {"framRead", "framWrite"} /\ rt.at \in {"i2cSend", "i2cRecv"}
    /\ rt' = IF ok
             THEN [rt EXCEPT !.at = IF rt.at = "i2cSend" THEN "sendWait" ELSE "recvWait",
                             !.busyFor = busyFor]
             ELSE [rt EXCEPT !.at = "done", !.result = -1]
    /\ UNCHANGED shellVars

\* One evaluation of while(XIicPs_BusIsBusy(&iic)); : the loop has no
\* counter, so a pass over a busy bus changes nothing.  ack is whether the
\* board's reply byte to a write is 0.
I2cBusPoll(ack) ==
    /\ rt.routine \in {"framRead", "framWrite"} /\ rt.at \in {"sendWait", "recvWait"}
    /\ rt' = IF rt.busyFor = NeverIdle THEN rt
             ELSE IF rt.busyFor > 0 THEN [rt EXCEPT !.busyFor = @ - 1]
             ELSE IF rt.at = "sendWait" THEN [rt EXCEPT !.at = "i2cRecv"]
             ELSE [rt EXCEPT !.at = "done",
                             !.result = IF rt.routine = "framWrite" /\ ~ack THEN -1 ELSE 0]
    /\ UNCHANGED shellVars

\* Communication::send up to its wait: XUartPs_Send and the count test.
SerialSendCall(n, sentAll, busyFor) ==
    /\ rt.routine = "none"
    /\ rt' = [routine |-> "send", at |-> IF sentAll THEN "sendWait" ELSE "done",
              len |-> n, busyFor |-> IF sentAll THEN busyFor ELSE 0,
              result |-> IF sentAll THEN 0 ELSE 1]
    /\ UNCHANGED shellVars

\* One evaluation of while (XUartPs_IsSending(&Uart_Ps)); LoopCount is
\* counted and never read.
SerialPoll ==
    /\ rt.routine = "send" /\ rt.at = "sendWait"
    /\ rt' = IF rt.busyFor = NeverIdle THEN rt
             ELSE IF rt.busyFor > 0 THEN [rt EXCEPT !.busyFor = @ - 1]
             ELSE [rt EXCEPT !.at = "done"]
    /\ UNCHANGED shellVars

\* The caller takes the status.
TransferReturn ==
    /\ rt.routine \in {"framRead", "framWrite", "send"} /\ rt.at = "done"
    /\ rt' = NoRoutine
    /\ UNCHANGED shellVars

InitBus == InitWith({[i \in Motors |-> DefaultLimits]}, {DefaultVswr}, {<<TRUE, TRUE, TRUE>>})

NextBus ==
    \/ \E op \in {"framRead", "framWrite"}, record \in FramRecords : FramCall(op, record)
    \/ \E ok \in BOOLEAN, busyFor \in BusyTimes : I2cTransfer(ok, busyFor)
    \/ \E ack \in BOOLEAN : I2cBusPoll(ack)
    \/ \E n \in SendLengths, sentAll \in BOOLEAN, busyFor \in BusyTimes :
          SerialSendCall(n, sentAll, busyFor)
    \/ SerialPoll
    \/ TransferReturn

\* The program keeps running: a step that changes the state is taken when
\* one stays possible.
SpecBus == InitBus /\ [][NextBus]_vars /\ WF_vars(NextBus)

\* ------------------------------------------------------------------------
\* The streams: their commands, the stream settings record, leaving and
\* entering the command loop
\* ------------------------------------------------------------------------

Word_run == <<"r", "u", "n">>

Word_i == <<"i">>

Word_o == <<"o">>

\* The range check on a stream rate in rrs, rrv, mrp and mss.
RateAccepted_NoUpper(rate) == rate >= 10

RateAccepted(rate) == rate >= 10 /\ rate <= 5000

\* rrs, rrv and mrp after their argument count test: the rate, if one is
\* given with run and accepted, then the enable flag, then the ACK.
SetStream(cmd, st, run, rateGiven, rate) ==
    /\ streamRate' = IF run /\ rateGiven /\ RateAccepted(rate)
                     THEN [streamRate EXCEPT ![st] = rate]
                     ELSE streamRate
    /\ streamEnabled' = [streamEnabled EXCEPT ![st] = run]
    /\ tx' = <<Ack(cmd, IF run THEN "RUN" ELSE "STOP")>>
    /\ ev' = Event(cmd, IF run THEN "run" ELSE "stop")

\* rrs [i|o] [run|stop] [rate_ms] and rrv [i|o] [run|stop] [rate_ms]; args
\* are argv[1..].  Anything but i selects the output sensor's stream.
CmdRfStream(cmd, inStream, outStream, args) ==
    /\ pc = "shell"
    /\ pc' = "stream"
    /\ IF Len(args) < 2
       THEN /\ tx' = <<Text("Usage: " \o cmd \o " [i|o] [run|stop] [rate_ms]")>>
            /\ ev' = Event(cmd, "usage")
            /\ UNCHANGED <<streamEnabled, streamRate>>
       ELSE SetStream(cmd, IF args[1] = Word_i THEN inStream ELSE outStream,
                      args[2] = Word_run, Len(args) >= 3,
                      IF Len(args) >= 3 THEN atoi(args[3]) ELSE 0)
    /\ motorCmd' = <<>>
    /\ UNCHANGED <<presenceVars, loopCounter_, lastStreamTime, amsVars, matcherInfo, M,
                   regVars, fram>>

CmdRrs(args) == CmdRfStream("rrs", "imp_i", "imp_o", args)

CmdRrv(args) == CmdRfStream("rrv", "vi_i", "vi_o", args)

\* mrp [run|stop] [rate_ms]
CmdMrp(args) ==
    /\ pc = "shell"
    /\ pc' = "stream"
    /\ IF Len(args) < 1
       THEN /\ tx' = <<Text("Usage: mrp [run|stop] [rate_ms]")>>
            /\ ev' = Event("mrp", "usage")
            /\ UNCHANGED <<streamEnabled, streamRate>>
       ELSE SetStream("mrp", "pos", args[1] = Word_run, Len(args) >= 2,
                      IF Len(args) >= 2 THEN atoi(args[2]) ELSE 0)
    /\ motorCmd' = <<>>
    /\ UNCHANGED <<presenceVars, loopCounter_, lastStreamTime, amsVars, matcherInfo, M,
                   regVars, fram>>

\* The stream rates as the settings record holds them: impedance, V/I,
\* motor position.
RatesOf(rates) == <<rates["imp_i"], rates["vi_i"], rates["pos"]>>

\* mss [impRate] [viRate] [posRate]: each rate is applied if accepted, then
\* the three rates are copied to matcherInfo and written to FRAM; saveOk is
\* the result of the write.
CmdMss(args, saveOk) ==
    /\ pc = "shell"
    /\ pc' = "stream"
    /\ IF Len(args) < 3
       THEN /\ tx' = <<Text("Usage: mss [impRate] [viRate] [posRate]")>>
            /\ ev' = Event("mss", "usage")
            /\ UNCHANGED <<streamRate, matcherInfo, fram>>
       ELSE \E impRate \in {atoi(args[1])}, viRate \in {atoi(args[2])},
               posRate \in {atoi(args[3])} :
            \E rates \in {[st \in Streams |->
                             IF st \in {"imp_i", "imp_o"} /\ RateAccepted(impRate) THEN impRate
                             ELSE IF st \in {"vi_i", "vi_o"} /\ RateAccepted(viRate) THEN viRate
                             ELSE IF st = "pos" /\ RateAccepted(posRate) THEN posRate
                             ELSE streamRate[st]]} :
              /\ streamRate' = rates
              /\ IF mBoard_
                 THEN /\ matcherInfo' = [matcherInfo EXCEPT !.impStreamRate = rates["imp_i"],
                                                            !.viStreamRate = rates["vi_i"],
                                                            !.motorPosStreamRate = rates["pos"]]
                      /\ fram' = IF saveOk THEN [fram EXCEPT !.stream = RatesOf(rates)]
                                 ELSE fram
                      /\ tx' = <<Text(IF saveOk THEN "Stream Settings saved to FRAM"
                                      ELSE "Failed to save Stream Settings to FRAM"),
                                 Ack("mss", "OK")>>
                 ELSE /\ UNCHANGED <<matcherInfo, fram>>
                      /\ tx' = <<Text("Stream Settings"), Ack("mss", "OK")>>
              /\ ev' = Event("mss", "ok")
    /\ motorCmd' = <<>>
    /\ UNCHANGED <<presenceVars, loopCounter_, streamEnabled, lastStreamTime, amsVars, M,
                   regVars>>

\* MotionBoard::loadStreamSettings: each rate is range-checked on its own
\* and replaced by 100 when out of range; all are 100 when the read fails.
loadStreamSettings(readOk) ==
    IF ~readOk THEN <<DefaultStreamRate, DefaultStreamRate, DefaultStreamRate>>
    ELSE [k \in 1..3 |-> IF fram.stream[k] >= 10 /\ fram.stream[k] <= 5000
                         THEN fram.stream[k] ELSE DefaultStreamRate]

\* DebugMode::applyStreamSettingsFromBoard
applyStreamSettingsFromBoard(info) ==
    [st \in Streams |->
        IF st \in {"imp_i", "imp_o"} THEN info.impStreamRate
        ELSE IF st \in {"vi_i", "vi_o"} THEN info.viStreamRate
        ELSE info.motorPosStreamRate]

\* MotionBoard::loadCalibrationInfo: the two records, each with the defaults
\* when its read fails.
loadCalibrationInfo(inOk, outOk) ==
    [i |-> IF inOk THEN fram.inputCal ELSE DefaultCal,
     o |-> IF outOk THEN fram.outputCal ELSE DefaultCal]

\* The start-up with the stream settings: MotionBoard::initialize, then
\* loadMatcherInfo (calibration, motor limits, stream settings, VSWR
\* settings; the calibration goes to the sensors when both are there), then
\* applyStreamSettingsFromBoard, then the command loop is entered.
BootStreams ==
    /\ pc = "boot"
    /\ pc' = "shell"
    /\ IF mBoard_
       THEN \E inOk \in BOOLEAN, outOk \in BOOLEAN, limitsOk \in BOOLEAN,
               streamOk \in BOOLEAN, vswrOk \in BOOLEAN :
              LET cal == loadCalibrationInfo(inOk, outOk)
                  lim == loadMotorLimits(limitsOk)
                  st == loadStreamSettings(streamOk)
                  vs == loadVswrSettings(vswrOk)
                  info == [matcherInfo EXCEPT !.inputCal = cal.i,
                                              !.outputCal = cal.o,
                                              !.motorLimits = lim,
                                              !.impStreamRate = st[1],
                                              !.viStreamRate = st[2],
                                              !.motorPosStreamRate = st[3],
                                              !.vswrStart = vs[1],
                                              !.vswrStop = vs[2],
                                              !.vswrRestart = vs[3]]
              IN  /\ M' = [i \in Motors |-> WithLimits(initialize[i], lim[i])]
                  /\ matcherInfo' = info
                  /\ streamRate' = applyStreamSettingsFromBoard(info)
                  /\ cal_' = IF iSensor_ /\ oSensor_
                             THEN [s \in Sensors |-> SensorCal(cal[s])]
                             ELSE cal_
                  /\ tx' = <<Frame("RGC", "i", "", cal.i),
                             Frame("RGC", "o", "", cal.o),
                             Frame("MGL", "", "", <<0>> \o lim[0]),
                             Frame("MGL", "", "", <<1>> \o lim[1]),
                             Frame("SST", "", "", <<st[1], st[2]>>),
                             Frame("MST", "", "", <<st[3]>>),
                             Frame("VSW", "", "", vs)>>
       ELSE /\ UNCHANGED <<M, matcherInfo, streamRate, cal_>>
            /\ tx' = <<>>
    /\ motorCmd' = <<>>
    /\ ev' = Event("boot", "")
    /\ UNCHANGED <<partsVars, loopCounter_, streamEnabled, lastStreamTime, amsVars,
                   regVars, fram>>

\* DebugMode::runCommandLoop when isDebugMode() is found false at the top
\* of the loop: the text line, then the five enable flags are cleared.
ExitLoop ==
    /\ pc = "shell"
    /\ pc' = "out"
    /\ streamEnabled' = [st \in Streams |-> FALSE]
    /\ tx' = <<Text("Exiting Debug Mode")>>
    /\ motorCmd' = <<>>
    /\ ev' = Event("exit", "")
    /\ UNCHANGED <<presenceVars, loopCounter_, streamRate, lastStreamTime, amsVars,
                   matcherInfo, M, regVars, fram>>

\* DebugMode::runCommandLoop called again, the mode pin selecting the
\* shell: the banner, and the loop is entered.
EnterLoop ==
    /\ pc = "out"
    /\ pc' = "shell"
    /\ tx' = <<Text("Debug Mode - Command Console")>>
    /\ motorCmd' = <<>>
    /\ ev' = Event("enter", "")
    /\ UNCHANGED <<presenceVars, loopCounter_, streamVars, amsVars, matcherInfo, M,
                   regVars, fram>>

\* Number of shell-loop iterations explored with the streams.
MaxStreamLoop == 4

\* What the stream settings record may hold at power-on: rates in range,
\* and rates below, above and far outside the range.
FramStreamRecords == {<<20, 100, 5000>>, <<9, 5001, -1>>}

\* rrs and rrv as the host may type them.
RfStreamArgs ==
    { <<Word_i, Word_run>>,
      <<Word_o, Word_run, IntText(20)>>,
      <<Word_i, Word_run, IntText(5001)>>,
      <<Word_i, Word_stop>>,
      <<Word_i>> }

MrpArgs == { <<Word_run>>, <<Word_run, IntText(10)>>, <<Word_run, IntText(9)>>, <<>> }

MssArgs == { <<IntText(10), IntText(5000), IntText(20)>>,
             <<IntText(9), IntText(5001), IntText(0)>>,
             <<IntText(20)>> }

\* What matcherInfo.inputCal and outputCal may hold before the first load:
\* the constructor assigns neither.
UnsetCals == {<<0, 0, 0>>, DefaultCal}

\* matcherInfo as MotionBoard's constructor leaves it, with the stream
\* rates and the two calibrations.
MatcherInfoConstructed(unset) ==
    [k \in DOMAIN MatcherInfoDefaults \cup
            {"impStreamRate", "viStreamRate", "motorPosStreamRate", "inputCal", "outputCal"} |->
        IF k \in DOMAIN MatcherInfoDefaults THEN MatcherInfoDefaults[k]
        ELSE IF k \in {"inputCal", "outputCal"} THEN unset
        ELSE DefaultStreamRate]

\* The shell and the board are constructed, FRAM holding one of images;
\* the sensors are present, the board may be missing.
InitFram(images) ==
    /\ pc = "boot"
    /\ iSensor_ = TRUE /\ oSensor_ = TRUE /\ mBoard_ \in BOOLEAN
    /\ loopCounter_ = 0
    /\ streamEnabled = [s \in Streams |-> FALSE]
    /\ streamRate = [s \in Streams |-> DefaultStreamRate]
    /\ lastStreamTime = [s \in Streams |-> 0]
    /\ amsEnabled_ = FALSE
    /\ amsMatching_ = FALSE
    /\ amsInterval_ = DefaultAmsInterval
    /\ amsTimeout_ = DefaultAmsTimeout
    /\ amsStartTime_ = 0
    /\ lastAmsTime_ = 0
    /\ amsVerbose_ = TRUE
    /\ amsLogInterval_ = DefaultAmsLogInterval
    /\ amsLogCounter_ = 0
    /\ \E unset \in UnsetCals : matcherInfo = MatcherInfoConstructed(unset)
    /\ M = [i \in Motors |-> MotorDefaults]
    /\ tarPosReg = [i \in Motors |-> IndexSearchTarget]
    /\ originReg = [i \in Motors |-> 0]
    /\ nowPosReg = [i \in Motors |-> IndexSearchTarget]
    /\ lastMove = [i \in Motors |-> "none"]
    /\ fram \in images
    /\ rt = NoRoutine
    /\ cal_ = [s \in Sensors |-> SensorCal(DefaultCal)]
    /\ tx = <<>>
    /\ motorCmd = <<>>
    /\ ev = [op |-> "init", path |-> "", wasEnabled |-> FALSE, wasMatching |-> FALSE,
             now |-> 0, vswr |-> 0, sampled |-> FALSE, goals |-> NoGoals,
             selectedGoal |-> -1]

InitStream ==
    InitFram([motorLimits : {[i \in Motors |-> DefaultLimits]}, vswr : {DefaultVswr},
              ams : {FramAmsRecord}, stream : FramStreamRecords,
              inputCal : {DefaultCal}, outputCal : {DefaultCal}])

NextStream ==
    \/ BootStreams
    \/ \E args \in RfStreamArgs : CmdRrs(args)
    \/ \E args \in RfStreamArgs : CmdRrv(args)
    \/ \E args \in MrpArgs : CmdMrp(args)
    \/ \E args \in MssArgs, saveOk \in BOOLEAN : CmdMss(args, saveOk)
    \/ \E args \in {<<>>, <<Word_stop>>} : CmdAms(args)
    \/ loopCounter_ < MaxStreamLoop /\ \E oRes \in OutSamples :
          HandleStreaming(<<10, 40>>, oRes, NoSolution)
    \/ ExitLoop
    \/ EnterLoop

SpecStream == InitStream /\ [][NextStream]_vars

\* ------------------------------------------------------------------------
\* The loads of the settings records
\* ------------------------------------------------------------------------

\* MotionBoard::loadAmsSettings: interval, timeout and log interval from
\* the FRAM record, each with its default; the timeout's test reads the
\* interval's word for its lower bound.
loadAmsSettings(readOk) ==
    IF ~readOk THEN <<10, 0, 10>>
    ELSE <<IF fram.ams[1] >= 1 /\ fram.ams[1] <= 1000 THEN fram.ams[1] ELSE 10,
           IF fram.ams[1] >= 0 /\ fram.ams[2] <= 60000 THEN fram.ams[2] ELSE 0,
           IF fram.ams[3] >= 1 /\ fram.ams[3] <= 1000 THEN fram.ams[3] ELSE 10>>

\* A call of MotionBoard::loadAmsSettings after start-up; readOk is the
\* result of the FRAM read.
LoadAms(readOk) ==
    /\ pc = "shell"
    /\ mBoard_
    /\ \E set \in {loadAmsSettings(readOk)} :
         /\ matcherInfo' = [matcherInfo EXCEPT !.amsInterval = set[1],
                                               !.amsTimeout = set[2],
                                               !.amsLogInterval = set[3]]
         /\ tx' = <<Frame("AST", "", "", set)>>
    /\ motorCmd' = <<>>
    /\ ev' = Event("loadAms", IF readOk THEN "read" ELSE "defaults")
    /\ UNCHANGED <<pc, presenceVars, loopCounter_, streamVars, amsVars, M, regVars, fram>>

\* AMS settings records FRAM may hold: the one an earlier ass left, one
\* with every word above its range, one with a negative timeout, and one
\* with a negative interval.
FramAmsRecords == {FramAmsRecord, <<0, 70000, 2000>>, <<20, -5, 5>>, <<-1, 30000, 5>>}

InitLoad ==
    InitFram([motorLimits : FramLimitImages, vswr : FramVswrRecords,
              ams : FramAmsRecords, stream : FramStreamRecords,
              inputCal : {DefaultCal}, outputCal : {DefaultCal}])

NextLoad ==
    \/ BootStreams
    \/ \E readOk \in BOOLEAN : LoadAms(readOk)

SpecLoad == InitLoad /\ [][NextLoad]_vars

\* ------------------------------------------------------------------------
\* The FRAM store: MotionBoard::framWrite and framRead, the address map,
\* and the saves and loads of the twelve records, byte by byte
\* ------------------------------------------------------------------------

Records ==
    {"model", "date", "serial", "input_cal", "output_cal", "first_index_pos",
     "motor_limits", "stream_settings", "motor_caps", "motor_fit_coeffs",
     "vswr_settings", "ams_settings"}

\* enum FramMap
RecordAddr(r) ==
    CASE r = "model" -> 0
      [] r = "date" -> 32
      [] r = "serial" -> 48
      [] r = "input_cal" -> 80
      [] r = "output_cal" -> 92
      [] r = "first_index_pos" -> 104
      [] r = "motor_limits" -> 232
      [] r = "stream_settings" -> 264
      [] r = "motor_caps" -> 284
      [] r = "motor_fit_coeffs" -> 300
      [] r = "vswr_settings" -> 332
      [] r = "ams_settings" -> 344

\* sizeof of the fields of MatcherInfo, and of the three-word buffers of
\* the stream, VSWR and AMS settings.
RecordSize(r) ==
    CASE r = "model" -> 32
      [] r = "date" -> 16
      [] r = "serial" -> 32
      [] r = "input_cal" -> 12
      [] r = "output_cal" -> 12
      [] r = "first_index_pos" -> 128
      [] r = "motor_limits" -> 32
      [] r = "stream_settings" -> 12
      [] r = "motor_caps" -> 16
      [] r = "motor_fit_coeffs" -> 32
      [] r = "vswr_settings" -> 12
      [] r = "ams_settings" -> 12

\* The addresses of the store: up to the end of the last record.
FramAddresses == 0..(RecordAddr("ams_settings") + RecordSize("ams_settings") - 1)

\* A part of a record moved by one transfer: len bytes from byte off on.
Part(r, off, len) == [rec |-> r, off |-> off, len |-> len]

Whole(r) == Part(r, 0, RecordSize(r))

Halves(r) ==
    <<Part(r, 0, RecordSize(r) \div 2), Part(r, RecordSize(r) \div 2, RecordSize(r) \div 2)>>

\* The framWrite calls of each save, in order.
SaveParts(h) ==
    CASE h = "saveModelName" -> <<Whole("model")>>
      [] h = "saveMakeDate" -> <<Whole("date")>>
      [] h = "saveSerialNum" -> <<Whole("serial")>>
      [] h = "saveCalibrationInfo" -> <<Whole("input_cal"), Whole("output_cal")>>
      [] h = "saveFirstIndexPos" -> <<Whole("first_index_pos")>>
      [] h = "saveMotorLimits" -> Halves("motor_limits")
      [] h = "saveStreamSettings" -> <<Whole("stream_settings")>>
      [] h = "saveMotorCaps" -> <<Whole("motor_caps")>>
      [] h = "saveMotorFitCoeffs" -> Halves("motor_fit_coeffs")
      [] h = "saveVswrSettings" -> <<Whole("vswr_settings")>>
      [] h = "saveAmsSettings" -> <<Whole("ams_settings")>>
      [] h = "saveMatcherInfo" ->
            <<Whole("model"), Whole("date"), Whole("serial"), Whole("input_cal"),
              Whole("output_cal"), Whole("first_index_pos")>>
            \o Halves("motor_limits") \o <<Whole("motor_caps")>>
            \o Halves("motor_fit_coeffs")

Saves ==
    {"saveModelName", "saveMakeDate", "saveSerialNum", "saveCalibrationInfo",
     "saveFirstIndexPos", "saveMotorLimits", "saveStreamSettings", "saveMotorCaps",
     "saveMotorFitCoeffs", "saveVswrSettings", "saveAmsSettings", "saveMatcherInfo"}

\* The framRead calls of each load, in order.
LoadParts(h) ==
    CASE h = "loadProductInfo" -> <<Whole("model"), Whole("date"), Whole("serial")>>
      [] h = "loadCalibrationInfo" -> <<Whole("input_cal"), Whole("output_cal")>>
      [] h = "loadFirstIndexPos" -> <<Whole("first_index_pos")>>
      [] h = "loadMotorLimits" -> <<Whole("motor_limits")>>
      [] h = "loadStreamSettings" -> <<Whole("stream_settings")>>
      [] h = "loadMotorCaps" -> <<Whole("motor_caps")>>
      [] h = "loadMotorFitCoeffs" -> Halves("motor_fit_coeffs")
      [] h = "loadVswrSettings" -> <<Whole("vswr_settings")>>
      [] h = "loadAmsSettings" -> <<Whole("ams_settings")>>

Loads ==
    {"loadProductInfo", "loadCalibrationInfo", "loadFirstIndexPos", "loadMotorLimits",
     "loadStreamSettings", "loadMotorCaps", "loadMotorFitCoeffs", "loadVswrSettings",
     "loadAmsSettings"}

\* The bytes of record r in matcherInfo, in content v: every byte differs
\* from its neighbours, from the other content and from the erased store.
RecordBytes(r, v) == [i \in 1..RecordSize(r) |-> (RecordAddr(r) + 3 * i + 101 * v) % 255]

\* The command bytes framWrite puts on the bus: command, address high and
\* low, length, payload.  len is a u8.
framWriteBuf(framAddr, len, data) ==
    <<"CMD_FRAM_WRITE", (framAddr \div 256) % 256, framAddr % 256, len % 256>>
    \o [i \in 1..(len % 256) |-> data[i]]

framReadBuf(framAddr, len) ==
    <<"CMD_FRAM_READ", (framAddr \div 256) % 256, framAddr % 256, len % 256>>

\* The companion device: a write command stores the payload at the address
\* of the command; a read command answers a header byte, then the bytes
\* stored from the address on.
DeviceStore(mem, buf) ==
    CHOOSE after \in {[a \in DOMAIN mem |->
                          IF a >= addr /\ a < addr + b[4] THEN b[5 + a - addr] ELSE mem[a]] :
                       b \in {buf}, addr \in {buf[2] * 256 + buf[3]}} : TRUE

DeviceAnswer(mem, buf, n) ==
    CHOOSE answer \in {[k \in 1..n |-> IF k = 1 THEN 0 ELSE mem[addr + k - 2]] :
                        addr \in {buf[2] * 256 + buf[3]}} : TRUE

\* A variant of framRead that does not skip the header byte.
framRead_WithHeader(mem, framAddr, len) ==
    CHOOSE data \in {[i \in 1..len |-> rxBuf[i]] :
                      rxBuf \in {DeviceAnswer(mem, framReadBuf(framAddr, len), len + 1)}} : TRUE

\* MotionBoard::framRead: len + 1 bytes are received and the first is
\* skipped.
framRead(mem, framAddr, len) ==
    CHOOSE data \in {[i \in 1..len |-> rxBuf[i + 1]] :
                      rxBuf \in {DeviceAnswer(mem, framReadBuf(framAddr, len), len + 1)}} : TRUE

\* MotionBoard::framWrite with both transfers succeeding.
framWrite(mem, framAddr, len, data) == DeviceStore(mem, framWriteBuf(framAddr, len, data))

\* The bytes of a part of a record.
PartBytes(bytes, p) == [i \in 1..p.len |-> bytes[p.off + i]]

\* The store after the framWrite calls of parts, each taking its bytes
\* from content v of its record.
RECURSIVE StoreParts(_, _, _)
StoreParts(mem, parts, v) ==
    IF parts = <<>> THEN mem
    ELSE StoreParts(framWrite(mem, RecordAddr(Head(parts).rec) + Head(parts).off,
                              Head(parts).len, PartBytes(RecordBytes(Head(parts).rec, v), Head(parts))),
                    Tail(parts), v)

\* The bytes the framRead calls of parts give, one after the other.
RECURSIVE FetchParts(_, _)
FetchParts(mem, parts) ==
    IF parts = <<>> THEN <<>>
    ELSE framRead(mem, RecordAddr(Head(parts).rec) + Head(parts).off, Head(parts).len)
         \o FetchParts(mem, Tail(parts))

\* The records that a sequence of parts touches.
PartRecords(parts) == {parts[k].rec : k \in 1..Len(parts)}

\* The store followed call by call: the last save or load, the payload
\* length of each of its framWrite calls, the number of saves so far, the
\* content each record was last saved with (-1: never), and the bytes the
\* last load read.
FramIdle ==
    [routine |-> "fram", op |-> "none", handler |-> "", saves |-> 0, lengths |-> <<>>,
     written |-> [r \in Records |-> -1], data |-> <<>>]

FramState == IF rt.routine = "fram" THEN rt ELSE FramIdle

shellVarsButFram ==
    <<pc, iSensor_, oSensor_, mBoard_, loopCounter_, streamEnabled, streamRate,
      lastStreamTime, amsEnabled_, amsMatching_, amsInterval_, amsTimeout_,
      amsStartTime_, lastAmsTime_, amsVerbose_, amsLogInterval_, amsLogCounter_,
      matcherInfo, M, tarPosReg, originReg, nowPosReg, lastMove, tx, motorCmd, ev,
      cal_>>

\* Number of saves explored.
MaxSaves == 2

\* Contents a record is saved with: every record with content 0, the
\* calibration records also with content 1.
SaveContents(h) == IF h = "saveCalibrationInfo" THEN {0, 1} ELSE {0}

\* A save with matcherInfo holding content v.  With ok the transfers
\* succeed; otherwise the first framWrite fails on the bus, nothing is
\* stored and the save returns there.
Save(h, v, ok) ==
    /\ mBoard_
    /\ v \in SaveContents(h)
    /\ FramState.saves < MaxSaves
    /\ fram' = IF ok THEN StoreParts(fram, SaveParts(h), v) ELSE fram
    /\ rt' = [FramState EXCEPT
                !.op = "save", !.handler = h, !.saves = @ + 1,
                !.lengths = IF ok THEN [k \in 1..Len(SaveParts(h)) |-> SaveParts(h)[k].len]
                            ELSE <<SaveParts(h)[1].len>>,
                !.written = IF ok
                            THEN [r \in Records |->
                                    IF r \in PartRecords(SaveParts(h)) THEN v ELSE @[r]]
                            ELSE @,
                !.data = <<>>]
    /\ UNCHANGED shellVarsButFram

\* A load whose reads succeed.
Load(h) ==
    /\ mBoard_
    /\ rt' = [FramState EXCEPT !.op = "load", !.handler = h, !.lengths = <<>>,
                               !.data = FetchParts(fram, LoadParts(h))]
    /\ UNCHANGED shellVars

\* The longest token the shell's tokenizer keeps, and the payload bytes a
\* token of hex digits holds at most.
TokenChars == 63

TokenBytes == TokenChars \div 2

CHUNK_SIZE == 32

\* The bytes of a dfr or dfw payload.
HexBytes(n) == [i \in 1..n |-> (7 * i) % 255]

\* dfr: the lengths of the chunks byteCount bytes are written in.
RECURSIVE ChunkLengths(_)
ChunkLengths(byteCount) ==
    IF byteCount <= 0 THEN <<>>
    ELSE <<Min2(byteCount, CHUNK_SIZE)>> \o ChunkLengths(byteCount - Min2(byteCount, CHUNK_SIZE))

\* The store after consecutive framWrite calls of the given lengths from
\* addr on, taking data from byte off on.
RECURSIVE StoreChunks(_, _, _, _, _)
StoreChunks(mem, addr, lengths, data, off) ==
    IF lengths = <<>> THEN mem
    ELSE StoreChunks(framWrite(mem, addr, Head(lengths),
                               [i \in 1..Head(lengths) |-> data[off + i]]),
                     addr + Head(lengths), Tail(lengths), data, off + Head(lengths))

\* The records with a byte in addr..(addr + n - 1).
Touched(addr, n) == {r \in Records : \E a \in addr..(addr + n - 1) : a \in RecordAddr(r)..(RecordAddr(r) + RecordSize(r) - 1)}

\* The framWrite calls of a raw write of n bytes at addr in chunks of the
\* given lengths; what the records touched hold is no longer a saved
\* content.
RawWrite(cmd, addr, n, lengths) ==
    /\ mBoard_
    /\ FramState.saves < MaxSaves
    /\ fram' = StoreChunks(fram, addr, lengths, HexBytes(n), 0)
    /\ rt' = [FramState EXCEPT
                !.op = "save", !.handler = cmd, !.saves = @ + 1, !.lengths = lengths,
                !.written = [r \in Records |-> IF r \in Touched(addr, n) THEN -1 ELSE @[r]],
                !.data = <<>>]
    /\ UNCHANGED shellVarsButFram

\* dfr [length] [hex_data] with hex_data of 2 * byteCount digits: chunks of
\* at most CHUNK_SIZE bytes from address 0 on.
CmdDfr(byteCount) ==
    /\ byteCount <= 512
    /\ RawWrite("dfr", 0, byteCount, ChunkLengths(byteCount))

\* dfw [addr_hex] [data_hex] with data_hex of 2 * byteCount digits: one
\* framWrite of at most 64 bytes.
CmdDfw(addr, byteCount) ==
    /\ addr \in FramAddresses
    /\ RawWrite("dfw", addr, Min2(byteCount, 64), <<Min2(byteCount, 64)>>)

\* The store as it leaves the factory.
ErasedStore == [a \in FramAddresses |-> 255]

InitStore == InitFram({ErasedStore})

NextStore ==
    \/ \E h \in Saves, v \in {0, 1} : Save(h, v, TRUE)
    \/ \E v \in {0, 1} : Save("saveCalibrationInfo", v, FALSE)
    \/ \E byteCount \in {2, TokenBytes} : CmdDfr(byteCount)
    \/ \E byteCount \in {1, TokenBytes} : CmdDfw(RecordAddr("input_cal"), byteCount)
    \/ \E h \in Loads : Load(h)

SpecStore == InitStore /\ [][NextStore]_vars

\* ------------------------------------------------------------------------
\* The sensors' calibration
\* ------------------------------------------------------------------------

Word_v == <<"v">>

Word_p == <<"p">>

\* The sensor a command's second word selects: none when the word is
\* missing, is neither i nor o, or names a sensor that is absent.
SensorOf(args) ==
    IF Len(args) >= 1 /\ args[1] = Word_i /\ iSensor_ THEN "i"
    ELSE IF Len(args) >= 1 /\ args[1] = Word_o /\ oSensor_ THEN "o"
    ELSE "none"

\* The place of a calibration value in inputCal and outputCal by the word
\* that names it; 0 for any other word, which sets nothing.
CalIndex(type) ==
    IF type = Word_v THEN 1 ELSE IF type = Word_i THEN 2 ELSE IF type = Word_p THEN 3 ELSE 0

\* setVoltageGain, setCurrentGain or setPhaseDiffDeg, by the place k.
setCal(cal, k, val) ==
    IF k = 1 THEN [cal EXCEPT !.voltageGain = val]
    ELSE IF k = 2 THEN [cal EXCEPT !.currentGain = val]
    ELSE IF k = 3 THEN [cal EXCEPT !.phaseDiffRad = DegToRad(val)]
    ELSE cal

\* The record of the board that mirrors a sensor's calibration.
CalField(s) == IF s = "i" THEN "inputCal" ELSE "outputCal"

\* MotionBoard::saveCalibrationInfo: the input record is written, then the
\* output record; a failed write ends the save.  wrote counts the writes
\* that succeed.
saveCalibrationInfo(info, wrote) ==
    [fram EXCEPT !.inputCal = IF wrote >= 1 THEN info.inputCal ELSE @,
                 !.outputCal = IF wrote >= 2 THEN info.outputCal ELSE @]

\* rsc [i|o] [v|i|p] [value]
CmdRsc(args, wrote) ==
    /\ pc = "shell"
    /\ pc' = "stream"
    /\ IF SensorOf(args) = "none" \/ Len(args) < 3
       THEN /\ tx' = <<Text("Usage: rsc [i|o] [v|i|p] [value]")>>
            /\ ev' = Event("rsc", "usage")
            /\ UNCHANGED <<cal_, matcherInfo, fram>>
       ELSE \E s \in {SensorOf(args)}, k \in {CalIndex(args[2])}, val \in {atof(args[3])} :
            /\ cal_' = [cal_ EXCEPT ![s] = setCal(@, k, val)]
            /\ IF mBoard_
               THEN \E info \in {[matcherInfo EXCEPT
                                    ![CalField(s)] = IF k > 0 THEN [@ EXCEPT ![k] = val]
                                                     ELSE @]} :
                      /\ matcherInfo' = info
                      /\ fram' = saveCalibrationInfo(info, wrote)
                      /\ tx' = IF wrote = 2
                               THEN <<Text("Saved Cal"), Ack("rsc", "OK_SAVED")>>
                               ELSE <<Text("Failed to save Cal"), Ack("rsc", "OK_SAVE_FAIL")>>
                      /\ ev' = Event("rsc", IF wrote = 2 THEN "saved" ELSE "save_fail")
               ELSE /\ UNCHANGED <<matcherInfo, fram>>
                    /\ tx' = <<Ack("rsc", "OK")>>
                    /\ ev' = Event("rsc", "ok")
    /\ motorCmd' = <<>>
    /\ UNCHANGED <<partsVars, loopCounter_, streamVars, amsVars, M, regVars>>

\* rgc [i|o]: the frame RGC,<i|o>,<v_gain>,<i_gain>,<phase_deg>,EN from
\* the sensor's calibration.
CmdRgc(args) ==
    /\ pc = "shell"
    /\ pc' = "stream"
    /\ IF SensorOf(args) = "none"
       THEN /\ tx' = <<Text("Usage: rgc [i|o]")>>
            /\ ev' = Event("rgc", "usage")
       ELSE \E s \in {SensorOf(args)} :
            /\ tx' = <<Frame("RGC", s, "", <<cal_[s].voltageGain, cal_[s].currentGain,
                                              RadToDeg(cal_[s].phaseDiffRad)>>)>>
            /\ ev' = Event("rgc", "ok")
    /\ motorCmd' = <<>>
    /\ UNCHANGED <<presenceVars, loopCounter_, streamVars, amsVars, matcherInfo, M,
                   regVars, fram>>

\* RFSensor::resetSettings, of which the calibration is kept here.
resetSettings == [voltageGain |-> 1000, currentGain |-> 1000, phaseDiffRad |-> 0]

\* rr [i|o]
CmdRr(args) ==
    /\ pc = "shell"
    /\ pc' = "stream"
    /\ IF SensorOf(args) = "none"
       THEN /\ tx' = <<Text("Usage: rr [i|o]")>>
            /\ ev' = Event("rr", "usage")
            /\ UNCHANGED cal_
       ELSE /\ cal_' = [cal_ EXCEPT ![SensorOf(args)] = resetSettings]
            /\ tx' = <<Ack("rr", "OK")>>
            /\ ev' = Event("rr", "ok")
    /\ motorCmd' = <<>>
    /\ UNCHANGED <<partsVars, loopCounter_, streamVars, amsVars, matcherInfo, M,
                   regVars, fram>>

\* The controller is restarted: everything is constructed again, FRAM
\* keeps what it holds.
Restart ==
    /\ pc \in {"shell", "stream"}
    /\ pc' = "boot"
    /\ loopCounter_' = 0
    /\ streamEnabled' = [s \in Streams |-> FALSE]
    /\ streamRate' = [s \in Streams |-> DefaultStreamRate]
    /\ lastStreamTime' = [s \in Streams |-> 0]
    /\ amsEnabled_' = FALSE
    /\ amsMatching_' = FALSE
    /\ amsInterval_' = DefaultAmsInterval
    /\ amsTimeout_' = DefaultAmsTimeout
    /\ amsStartTime_' = 0
    /\ lastAmsTime_' = 0
    /\ amsVerbose_' = TRUE
    /\ amsLogInterval_' = DefaultAmsLogInterval
    /\ amsLogCounter_' = 0
    /\ \E unset \in UnsetCals : matcherInfo' = MatcherInfoConstructed(unset)
    /\ M' = [i \in Motors |-> MotorDefaults]
    /\ tarPosReg' = [i \in Motors |-> IndexSearchTarget]
    /\ originReg' = [i \in Motors |-> 0]
    /\ nowPosReg' = [i \in Motors |-> IndexSearchTarget]
    /\ lastMove' = [i \in Motors |-> "none"]
    /\ cal_' = [s \in Sensors |-> SensorCal(DefaultCal)]
    /\ tx' = <<>>
    /\ motorCmd' = <<>>
    /\ ev' = Event("restart", "")
    /\ UNCHANGED <<partsVars, fram>>

\* The calibrations FRAM may hold at the start.
FramCalRecords == {DefaultCal, <<1100, 900, 15000>>}

RscArgs ==
    { <<Word_i, Word_v, DecimalText(1250)>>,
      <<Word_o, Word_p, DecimalText(30000)>>,
      <<Word_i, Word_v>>,
      <<Word_stop, Word_v, DecimalText(1250)>> }

InitCal ==
    InitFram([motorLimits : {[i \in Motors |-> DefaultLimits]}, vswr : {DefaultVswr},
              ams : {FramAmsRecord}, stream : {<<20, 100, 5000>>},
              inputCal : FramCalRecords, outputCal : {DefaultCal}])

NextCal ==
    \/ BootStreams
    \/ \E args \in RscArgs, wrote \in 0..2 : CmdRsc(args, wrote)
    \/ \E args \in {<<Word_i>>, <<Word_o>>, <<>>} : CmdRgc(args)
    \/ \E args \in {<<Word_i>>, <<>>} : CmdRr(args)
    \/ \E limitsRet \in BOOLEAN :
          CmdMsl(<<IntText(0), CommaJoin(<<IntText(100), IntText(0), IntText(50),
                                           IntText(10)>>)>>, limitsRet, TRUE)
    \/ loopCounter_ < MaxStreamLoop /\ \E oRes \in OutSamples :
          HandleStreaming(<<10, 40>>, oRes, NoSolution)
    \/ Restart

SpecCal == InitCal /\ [][NextCal]_vars

\* ------------------------------------------------------------------------
\* The dispatch of a command line (DebugMode::executeCommand)
\* ------------------------------------------------------------------------

\* The opcodes executeCommand hands to handleDeviceCommand,
\* handleRfCommand, handleMotorCommand and handleAutoMatchCommand.
DeviceOps == {"dsi", "dgi", "dfb", "dfr", "dfw"}

RfOps == {"ri", "rrs", "rf", "rrv", "rz", "rk", "rr", "rsc", "rgc", "rsa", "rga"}

MotorOps == {"mi", "mr", "mf", "mo", "mgp", "msc", "mst", "mgs", "msd", "msl", "mgl", "mfc",
             "mrp", "mss", "msg", "mgi", "mor", "mfi", "moi", "mrw", "mis", "msw", "mhr"}

\* A variant of AutoMatchOps with the two AMS settings opcodes.
AutoMatchOps_WithAss == {"amc", "amg", "amr", "ams", "asv", "agv", "ass", "ags"}

AutoMatchOps == {"amc", "amg", "amr", "ams", "asv", "agv"}

\* The handler executeCommand calls for the opcode cmd.
Handler(cmd) ==
    IF cmd = "dh" THEN "printHelp"
    ELSE IF cmd = "da" THEN "setAutoMatchingMode"
    ELSE IF cmd \in DeviceOps THEN "handleDeviceCommand"
    ELSE IF cmd \in RfOps THEN "handleRfCommand"
    ELSE IF cmd \in MotorOps THEN "handleMotorCommand"
    ELSE IF cmd \in AutoMatchOps THEN "handleAutoMatchCommand"
    ELSE "unknown"

\* The end of executeCommand: no list holds the opcode.
UnknownCommand(cmd) ==
    /\ pc = "shell"
    /\ pc' = "stream"
    /\ tx' = <<Text("Unknown command: " \o cmd), Text("Type 'dh' for available commands")>>
    /\ motorCmd' = <<>>
    /\ ev' = Event(cmd, "unknown")
    /\ UNCHANGED <<presenceVars, loopCounter_, streamVars, amsVars, matcherInfo, M,
                   regVars, fram>>

\* agv: the frame VSW,<start>,<stop>,<restart>,EN and the acknowledgement.
CmdAgv ==
    /\ pc = "shell"
    /\ pc' = "stream"
    /\ IF ~mBoard_
       THEN /\ tx' = <<Text("Error: MotionBoard not available")>>
            /\ ev' = Event("agv", "error")
       ELSE /\ tx' = <<Frame("VSW", "", "", <<matcherInfo.vswrStart, matcherInfo.vswrStop,
                                                matcherInfo.vswrRestart>>),
                       Ack("agv", "OK")>>
            /\ ev' = Event("agv", "ok")
    /\ motorCmd' = <<>>
    /\ UNCHANGED <<presenceVars, loopCounter_, streamVars, amsVars, matcherInfo, M,
                   regVars, fram>>

\* ags: the frame AST,<interval>,<timeout>,<logInterval>,EN and the
\* acknowledgement.
CmdAgs ==
    /\ pc = "shell"
    /\ pc' = "stream"
    /\ IF ~mBoard_
       THEN /\ tx' = <<Text("Error: MotionBoard not available")>>
            /\ ev' = Event("ags", "error")
       ELSE /\ tx' = <<Frame("AST", "", "", <<matcherInfo.amsInterval, matcherInfo.amsTimeout,
                                                matcherInfo.amsLogInterval>>),
                       Ack("ags", "OK")>>
            /\ ev' = Event("ags", "ok")
    /\ motorCmd' = <<>>
    /\ UNCHANGED <<presenceVars, loopCounter_, streamVars, amsVars, matcherInfo, M,
                   regVars, fram>>

\* handleRfCommand, of which rrs, rrv, rr, rsc and rgc are followed.
handleRfCommand(cmd, args, saveOk) ==
    IF cmd = "rrs" THEN CmdRrs(args)
    ELSE IF cmd = "rrv" THEN CmdRrv(args)
    ELSE IF cmd = "rsc" THEN CmdRsc(args, IF saveOk THEN 2 ELSE 0)
    ELSE IF cmd = "rgc" THEN CmdRgc(args)
    ELSE IF cmd = "rr" THEN CmdRr(args)
    ELSE FALSE

\* handleMotorCommand, of which mr, mf, mo, msl, mrp and mss are followed.
handleMotorCommand(cmd, args, saveOk) ==
    IF cmd = "mr" THEN CmdMr(args)
    ELSE IF cmd = "mf" THEN CmdMf(args)
    ELSE IF cmd = "mo" THEN CmdMo(args)
    ELSE IF cmd = "msl" THEN CmdMsl(args, saveOk, saveOk)
    ELSE IF cmd = "mrp" THEN CmdMrp(args)
    ELSE IF cmd = "mss" THEN CmdMss(args, saveOk)
    ELSE FALSE

\* handleAutoMatchCommand, of which ams, asv, agv, ass and ags are followed.
handleAutoMatchCommand(cmd, args, saveOk) ==
    IF cmd = "ams" THEN CmdAms(args)
    ELSE IF cmd = "asv" THEN CmdAsv(args, saveOk)
    ELSE IF cmd = "agv" THEN CmdAgv
    ELSE IF cmd = "ass" THEN CmdAss(args, saveOk)
    ELSE IF cmd = "ags" THEN CmdAgs
    ELSE FALSE

\* DebugMode::executeCommand for the line cmd args...; saveOk is the result
\* of the FRAM writes of the command.
executeCommand(cmd, args, saveOk) ==
    IF Handler(cmd) = "handleRfCommand" THEN handleRfCommand(cmd, args, saveOk)
    ELSE IF Handler(cmd) = "handleMotorCommand" THEN handleMotorCommand(cmd, args, saveOk)
    ELSE IF Handler(cmd) = "handleAutoMatchCommand"
    THEN handleAutoMatchCommand(cmd, args, saveOk)
    ELSE IF Handler(cmd) = "unknown" THEN UnknownCommand(cmd)
    ELSE FALSE

\* The command lines the host sends: the opcode and its arguments.
ShellLines ==
    { <<"ams", <<>>>>, <<"ams", <<Word_stop>>>>,
      <<"asv", <<DecimalText(1100), DecimalText(1050), DecimalText(1100)>>>>,
      <<"asv", <<DecimalText(1100)>>>>,
      <<"agv", <<>>>>,
      <<"ass", <<IntText(30), IntText(0), IntText(5)>>>>,
      <<"ags", <<>>>>,
      <<"rrs", <<Word_i, Word_run>>>>, <<"rrs", <<Word_i>>>>,
      <<"rsc", <<Word_i, Word_v, DecimalText(1250)>>>>,
      <<"rgc", <<Word_i>>>>,
      <<"mr", <<IntText(0), IntText(5000)>>>>, <<"mr", <<IntText(5), IntText(5000)>>>>,
      <<"mf", <<IntText(1), IntText(6000)>>>>,
      <<"msl", <<IntText(0), CommaJoin(<<IntText(100), IntText(0), IntText(50),
                                          IntText(10)>>)>>>>,
      <<"xyz", <<>>>> }

\* The opcodes the host sends.
ShellOps == {line[1] : line \in ShellLines}

InitShell ==
    InitFram([motorLimits : {[i \in Motors |-> DefaultLimits]}, vswr : {DefaultVswr},
              ams : {FramAmsRecord}, stream : {<<20, 100, 5000>>},
              inputCal : {DefaultCal}, outputCal : {DefaultCal}])

NextShell ==
    \/ BootStreams
    \/ \E line \in ShellLines, saveOk \in BOOLEAN : executeCommand(line[1], line[2], saveOk)
    \/ loopCounter_ < MaxStreamLoop /\ \E oRes \in OutSamples :
          HandleStreaming(<<10, 40>>, oRes, NoSolution)

SpecShell == InitShell /\ [][NextShell]_vars

\* ------------------------------------------------------------------------
\* The hex arguments of dfr and dfw
\* ------------------------------------------------------------------------

DecimalChars == <<"0", "1", "2", "3", "4", "5", "6", "7", "8", "9">>

UpperHexChars == <<"A", "B", "C", "D", "E", "F">>

LowerHexChars == <<"a", "b", "c", "d", "e", "f">>

\* Place of c in chars, 0 when it is not there.
PlaceIn(chars, c) ==
    IF \E k \in 1..Len(chars) : chars[k] = c
    THEN CHOOSE k \in 1..Len(chars) : chars[k] = c
    ELSE 0

\* The character code of a hex digit.
CharCode(c) ==
    IF PlaceIn(DecimalChars, c) > 0 THEN 47 + PlaceIn(DecimalChars, c)
    ELSE IF PlaceIn(UpperHexChars, c) > 0 THEN 64 + PlaceIn(UpperHexChars, c)
    ELSE 96 + PlaceIn(LowerHexChars, c)

\* The value a hex digit denotes.
DigitDenoted(c) ==
    IF PlaceIn(DecimalChars, c) > 0 THEN PlaceIn(DecimalChars, c) - 1
    ELSE IF PlaceIn(UpperHexChars, c) > 0 THEN 9 + PlaceIn(UpperHexChars, c)
    ELSE 9 + PlaceIn(LowerHexChars, c)

\* expandAbbreviations: a capital letter becomes the small letter.
ToLower(tok) ==
    [k \in 1..Len(tok) |->
        IF PlaceIn(UpperHexChars, tok[k]) > 0
        THEN LowerHexChars[PlaceIn(UpperHexChars, tok[k])]
        ELSE tok[k]]

\* A variant of HexValue that tests for the small letters first.
HexValue_SmallFirst(c) ==
    IF CharCode(c) >= 97 THEN CharCode(c) - 97 + 10
    ELSE IF CharCode(c) >= 65 THEN CharCode(c) - 65 + 10
    ELSE CharCode(c) - 48

\* The handlers' conversion of a hex character, a u8: the test for 'A'
\* comes first, and a small letter passes it.
HexValue(c) ==
    IF CharCode(c) >= 65 THEN CharCode(c) - 65 + 10
    ELSE IF CharCode(c) >= 97 THEN CharCode(c) - 97 + 10
    ELSE CharCode(c) - 48

\* a | b for a, b >= 0.
RECURSIVE BitOr(_, _)
BitOr(a, b) ==
    IF a = 0 THEN b
    ELSE IF b = 0 THEN a
    ELSE 2 * BitOr(a \div 2, b \div 2) + (IF a % 2 = 1 \/ b % 2 = 1 THEN 1 ELSE 0)

\* (high << 4) | low, stored in a u8.
HexByte(high, low) == BitOr(HexValue(high) * 16, HexValue(low)) % 256

\* The bytes the handlers take from a token of hex digits: byteCount of
\* them, two digits each.
HexDecode(tok, byteCount) ==
    [i \in 1..byteCount |-> HexByte(tok[2 * i - 1], tok[2 * i])]

\* The bytes a string of hex digits denotes.
BytesDenoted(typed) ==
    [i \in 1..(Len(typed) \div 2) |->
        16 * DigitDenoted(typed[2 * i - 1]) + DigitDenoted(typed[2 * i])]

\* dfw's address, a u16: addr = (addr << 4) | val for every character.
RECURSIVE HexAddress(_, _)
HexAddress(tok, addr) ==
    IF tok = <<>> THEN addr
    ELSE HexAddress(Tail(tok), BitOr((addr * 16) % 65536, HexValue(Head(tok))))

\* The address a string of hex digits denotes.
RECURSIVE AddressDenoted(_, _)
AddressDenoted(typed, addr) ==
    IF typed = <<>> THEN addr
    ELSE AddressDenoted(Tail(typed), addr * 16 + DigitDenoted(Head(typed)))

\* The tokenizer's cut of an over-long token.
Truncated(tok) == IF Len(tok) > TokenChars THEN SubSeq(tok, 1, TokenChars) ELSE tok

\* A token as the handler finds it: cut and in small letters.
Tokenised(typed) == ToLower(Truncated(typed))

\* The line followed: the opcode, the words as typed, and the number of
\* lines so far.
HexIdle == [routine |-> "hex", op |-> "none", typed |-> <<>>, lines |-> 0]

HexState == IF rt.routine = "hex" THEN rt ELSE HexIdle

\* Number of dfr and dfw lines explored.
MaxHexLines == 2

shellVarsButFramTx ==
    <<pc, iSensor_, oSensor_, mBoard_, loopCounter_, streamEnabled, streamRate,
      lastStreamTime, amsEnabled_, amsMatching_, amsInterval_, amsTimeout_,
      amsStartTime_, lastAmsTime_, amsVerbose_, amsLogInterval_, amsLogCounter_,
      matcherInfo, M, tarPosReg, originReg, nowPosReg, lastMove, motorCmd, cal_>>

\* dfw <addr_hex> <data_hex> as typed; the write succeeds.
TypeDfw(addrTyped, dataTyped) ==
    /\ mBoard_
    /\ HexState.lines < MaxHexLines
    /\ \E addr \in {HexAddress(Tokenised(addrTyped), 0)},
          byteCount \in {Min2((Len(Tokenised(dataTyped)) \div 2) % 256, 64)} :
          fram' = framWrite(fram, addr, byteCount,
                            HexDecode(Tokenised(dataTyped), byteCount))
    /\ tx' = <<Text("FRAM write OK"), Ack("dfw", "OK")>>
    /\ ev' = Event("dfw", "ok")
    /\ rt' = [HexState EXCEPT !.op = "dfw", !.typed = <<addrTyped, dataTyped>>,
                              !.lines = @ + 1]
    /\ UNCHANGED shellVarsButFramTx

\* dfr <length> <hex_data> as typed: a warning when the length differs,
\* a refusal for an odd number of digits or more than 512 bytes, else
\* chunks of at most CHUNK_SIZE bytes from address 0 on.
TypeDfr(lengthTyped, dataTyped) ==
    /\ mBoard_
    /\ HexState.lines < MaxHexLines
    /\ \E hexData \in {Tokenised(dataTyped)} :
       \E byteCount \in {Len(hexData) \div 2} :
          IF Len(hexData) % 2 /= 0
          THEN /\ tx' = <<Text("Error: Hex string must have even length")>>
               /\ ev' = Event("dfr", "odd")
               /\ UNCHANGED fram
          ELSE IF byteCount > 512
          THEN /\ tx' = <<Text("Error: Data too large (max 512 bytes)")>>
               /\ ev' = Event("dfr", "large")
               /\ UNCHANGED fram
          ELSE /\ fram' = StoreChunks(fram, 0, ChunkLengths(byteCount),
                                      HexDecode(hexData, byteCount), 0)
               /\ tx' = <<Text("Restoring FRAM"), Ack("dfr", "OK")>>
               /\ ev' = Event("dfr", "ok")
    /\ rt' = [HexState EXCEPT !.op = "dfr", !.typed = <<lengthTyped, dataTyped>>,
                              !.lines = @ + 1]
    /\ UNCHANGED shellVarsButFramTx

\* The digits of a byte as dfb prints it: %02X.
HexText(byte) ==
    <<(DecimalChars \o UpperHexChars)[(byte \div 16) + 1],
      (DecimalChars \o UpperHexChars)[(byte % 16) + 1]>>

\* The hex data of the frame DFB,<size>,<hex>,EN for the first size bytes.
RECURSIVE DfbHex(_, _, _)
DfbHex(mem, from, size) ==
    IF size <= 0 THEN <<>>
    ELSE HexText(framRead(mem, from, 1)[1]) \o DfbHex(mem, from + 1, size - 1)

\* The smallest dump dfb makes.
MinDumpBytes == 16

\* The host sends the dump of the first size bytes back: dfr <size> <hex>.
RestoreDump(size) ==
    /\ size >= MinDumpBytes
    /\ TypeDfr(IntText(size), DfbHex(fram, 0, size))

\* The hex strings the host types.
HexDataTyped ==
    { <<"1", "2">>, <<"4", "D">>, <<"1", "a">>, <<"A", "0">>, <<"f", "f">>,
      <<"0", "9", "7", "e">>, <<"1", "2", "3">> }

HexAddrTyped == { <<"0", "0", "0", "0">>, <<"0", "0", "5", "0">>, <<"0", "0", "0", "A">> }

\* The store with the model name saved.
NamedStore == StoreParts(ErasedStore, SaveParts("saveModelName"), 0)

InitHex == InitFram({ErasedStore, NamedStore})

NextHex ==
    \/ \E addrTyped \in HexAddrTyped, dataTyped \in HexDataTyped : TypeDfw(addrTyped, dataTyped)
    \/ \E dataTyped \in HexDataTyped : TypeDfr(IntText(Len(dataTyped) \div 2), dataTyped)
    \/ RestoreDump(MinDumpBytes)

SpecHex == InitHex /\ [][NextHex]_vars

\* ------------------------------------------------------------------------
\* The AMS loop with motors whose range does not start at step 0
\* ------------------------------------------------------------------------

\* Limits 100..64000 with the stops at 4000 and 60000.
RaisedLimits == <<100, 64000, 4000, 60000>>

InitSolve ==
    InitWith({[i \in Motors |-> RaisedLimits], [i \in Motors |-> DefaultLimits]},
             {DefaultVswr}, {<<TRUE, TRUE, TRUE>>})

NextSolve ==
    \/ Boot
    \/ \E args \in {<<>>, <<Word_stop>>} : CmdAms(args)
    \/ \E iRes \in ImpSamples, oRes \in OutSamples :
          \E sol \in SolverDraw(SolverReached(iRes, oRes)) : HandleStreaming(iRes, oRes, sol)

SpecSolve == InitSolve /\ [][NextSolve]_vars

\* ------------------------------------------------------------------------
\* The conversions between step and capacitance
\* ------------------------------------------------------------------------

\* Motors as mfc and msl may have left them.  The calibrated ones have a
\* linear fit (a0, a1, 0, 0) in pF: for these every guess of the
\* Newton-Raphson loop is a fraction with a small denominator.
FitMotor(coeffs, limits, caps) ==
    [MotorDefaults EXCEPT !.fitCoeffs = coeffs,
                          !.minValue = limits[1], !.maxValue = limits[2],
                          !.lowerLimit = limits[3], !.upperLimit = limits[4],
                          !.minCap = caps[1], !.maxCap = caps[2]]

WholeRange == <<0, 64000, 0, 64000>>

DefaultCaps == <<DefaultMinCap, DefaultMaxCap>>

FitMotors ==
    {FitMotor(<<0, 100, 0, 0>>, WholeRange, DefaultCaps),
     FitMotor(<<0, 100, 0, 0>>, DefaultLimits, DefaultCaps),
     FitMotor(<<10, 200, 0, 0>>, RaisedLimits, DefaultCaps),
     FitMotor(<<0, 0, 0, 0>>, DefaultLimits, DefaultCaps),
     FitMotor(<<0, 0, 0, 0>>, RaisedLimits, <<500, 50000>>)}

\* Steps inside and outside the range, and target capacitances (pF x 100)
\* inside and outside what the motors can reach.
FitPositions ==
    {-100, 0, 100, 4000, 16000, 16003, 32000, 32030, 32320, 48000, 60000, 64000, 70000}

FitTargets == {-500, 0, 500, 2500, 5004, 10000, 50000, 100000, 150000}

\* What a conversion was applied to and what it returned; back says that
\* the target of getPositionFromCap was the capacitance computed for pos.
FitEvent(op, i, back, pos, cap, step, passes) ==
    [op |-> op, path |-> "", motor |-> i, back |-> back, pos |-> pos, cap |-> cap,
     step |-> step, passes |-> passes]

shellVarsButEv == <<pc, iSensor_, oSensor_, mBoard_, loopCounter_, streamEnabled, streamRate,
                    lastStreamTime, amsEnabled_, amsMatching_, amsInterval_, amsTimeout_,
                    amsStartTime_, lastAmsTime_, amsVerbose_, amsLogInterval_,
                    amsLogCounter_, matcherInfo, M, tarPosReg, originReg, nowPosReg,
                    lastMove, fram, tx, motorCmd, cal_>>

\* getCapacitanceAt(pos) on motor i.
CapacitanceAt(i, pos) ==
    /\ ev' = FitEvent("getCapacitanceAt", i, FALSE, pos, getCapacitanceAt(M[i], pos), 0, 0)
    /\ UNCHANGED <<shellVarsButEv, rt>>

\* getPositionFromCap(targetCap) on motor i; from is the step whose
\* capacitance the target is, if back says it is one.
PositionFromCap(i, targetCap, back, from) ==
    /\ ev' = FitEvent("getPositionFromCap", i, back, from, targetCap,
                      getPositionFromCap(M[i], targetCap),
                      IF isFittingCalibrated(M[i]) /\ M[i].maxValue - M[i].minValue > 0
                      THEN newtonPositionFromCap(M[i], targetCap).passes ELSE 0)
    /\ UNCHANGED <<shellVarsButEv, rt>>

\* The capacitance just computed for a step is converted back.
PositionOfCapacitance ==
    /\ ev.op = "getCapacitanceAt"
    /\ PositionFromCap(ev.motor, ev.cap, TRUE, ev.pos)

InitFit ==
    InitWithMotors({[i \in Motors |-> DefaultLimits]}, {DefaultVswr}, {<<TRUE, TRUE, TRUE>>},
                   {[i \in Motors |-> m] : m \in FitMotors})

NextFit ==
    \/ \E i \in Motors, pos \in FitPositions : CapacitanceAt(i, pos)
    \/ \E i \in Motors, targetCap \in FitTargets : PositionFromCap(i, targetCap, FALSE, 0)
    \/ PositionOfCapacitance

SpecFit == InitFit /\ [][NextFit]_vars

\* ------------------------------------------------------------------------
\* The serial receive path: handler_uart_impl against runCommandLoop
\* ------------------------------------------------------------------------

CR == "\r"

LF == "\n"

NUL == "NUL"

UART_RX_BUF_SIZE == 1024

CmdBufferSize == 256

\* The receive state of Communication (Rx_buf, bUart0_BufIndex,
\* Recv_Complete), the main loop's place in runCommandLoop (at) with its
\* locals (len, cmdBuffer), and what is remembered of the run: the bytes
\* the host has sent, the commands handed to processCommand, whether a
\* burst was sent, and whether a byte other than LF arrived while a command
\* was pending or in progress.  Rx_buf is held up to its last written byte;
\* the bytes after it are NUL.
SerialIdle ==
    [routine |-> "serial", Rx_buf |-> <<>>, bUart0_BufIndex |-> 0, Recv_Complete |-> FALSE,
     at |-> "poll", len |-> 0, cmdBuffer |-> <<>>,
     sent |-> <<>>, processed |-> <<>>, bursts |-> 0, overlapped |-> FALSE]

SerialState == IF rt.routine = "serial" THEN rt ELSE SerialIdle

\* buf with b written at the 0-based index.
StoreByte(buf, index, b) ==
    IF index < Len(buf) THEN [buf EXCEPT ![index + 1] = b]
    ELSE buf \o [k \in 1..(index - Len(buf)) |-> NUL] \o <<b>>

\* The body of the while loop of handler_uart_impl for one received byte.
ReceiveByte_NoGuard(st, b) ==
    IF b = CR THEN [st EXCEPT !.Recv_Complete = TRUE]
    ELSE IF b = LF THEN st
    ELSE [st EXCEPT !.Rx_buf = StoreByte(@, st.bUart0_BufIndex, b),
                    !.bUart0_BufIndex = @ + 1]

ReceiveByte(st, b) ==
    IF b = CR THEN [st EXCEPT !.Recv_Complete = TRUE]
    ELSE IF b = LF THEN st
    ELSE IF st.bUart0_BufIndex < UART_RX_BUF_SIZE - 1
         THEN [st EXCEPT !.Rx_buf = StoreByte(@, st.bUart0_BufIndex, b),
                         !.bUart0_BufIndex = @ + 1]
         ELSE st

\* The passes of the while loop over a run of bytes waiting in the FIFO,
\* none of them CR or LF: as many as there is room for are stored from the
\* index on, the others are dropped.
ReceiveRun(st, bytes) ==
    LET index == st.bUart0_BufIndex
        room == (UART_RX_BUF_SIZE - 1) - index
        stored == IF Len(bytes) < room THEN Len(bytes) ELSE room
        extent == IF Len(st.Rx_buf) > index + stored THEN Len(st.Rx_buf) ELSE index + stored
    IN  [st EXCEPT !.Rx_buf = [k \in 1..extent |->
                                  IF k > index /\ k <= index + stored THEN bytes[k - index]
                                  ELSE IF k <= Len(st.Rx_buf) THEN st.Rx_buf[k] ELSE NUL],
                   !.bUart0_BufIndex = index + stored]

\* The bytes of a C string: those before the first NUL.
CString(buf) ==
    LET nuls == {k \in 1..Len(buf) : buf[k] = NUL}
    IN  IF nuls = {} THEN buf
        ELSE SubSeq(buf, 1, (CHOOSE k \in nuls : \A j \in nuls : k <= j) - 1)

\* Number of single bytes the host sends, and the burst it may send once:
\* more ordinary bytes than Rx_buf holds.
MaxSerialBytes == 5

SerialBytes == {"a", "b", CR, LF}

SerialBurst == [k \in 1..UART_RX_BUF_SIZE |-> "x"]

\* The interrupt: handler_uart_impl runs to its end between any two steps
\* of the main loop.
handler_uart_impl(bytes) ==
    /\ rt' = [(IF Len(bytes) = 1 THEN ReceiveByte(SerialState, bytes[1])
                ELSE ReceiveRun(SerialState, bytes)) EXCEPT
                 !.sent = @ \o bytes,
                 !.bursts = @ + (IF Len(bytes) = 1 THEN 0 ELSE 1),
                 !.overlapped = @ \/ (bytes # <<LF>> /\ (SerialState.Recv_Complete
                                                        \/ SerialState.at # "poll"))]
    /\ UNCHANGED shellVars

HostByte ==
    /\ Len(SerialState.sent) - SerialState.bursts * UART_RX_BUF_SIZE < MaxSerialBytes
    /\ \E b \in SerialBytes : handler_uart_impl(<<b>>)

HostBurst ==
    /\ SerialState.bursts = 0
    /\ SerialState.sent = <<>>
    /\ handler_uart_impl(SerialBurst)

\* runCommandLoop: if (Communication::isReceiveComplete())
PollReceive ==
    /\ SerialState.at = "poll"
    /\ SerialState.Recv_Complete
    /\ rt' = [SerialState EXCEPT !.at = "len"]
    /\ UNCHANGED shellVars

\* uint16_t len = Communication::getRxBufferIndex();
ReadIndex ==
    /\ rt.routine = "serial" /\ rt.at = "len"
    /\ rt' = [rt EXCEPT !.len = rt.bUart0_BufIndex, !.at = "copy"]
    /\ UNCHANGED shellVars

\* memcpy(cmdBuffer, rxBuf, copyLen); cmdBuffer[copyLen] = '\0';
CopyCommand ==
    /\ rt.routine = "serial" /\ rt.at = "copy"
    /\ \E copyLen \in {IF rt.len < CmdBufferSize - 1 THEN rt.len ELSE CmdBufferSize - 1} :
          rt' = [rt EXCEPT !.cmdBuffer =
                               SubSeq(rt.Rx_buf \o [k \in 1..(copyLen - Len(rt.Rx_buf)) |-> NUL],
                                      1, copyLen),
                           !.at = "process"]
    /\ UNCHANGED shellVars

\* processCommand(cmdBuffer, fftBuffer): the command is the C string.
ProcessCommand ==
    /\ rt.routine = "serial" /\ rt.at = "process"
    /\ rt' = [rt EXCEPT !.processed = Append(@, CString(rt.cmdBuffer)),
                        !.at = "reset_flag"]
    /\ UNCHANGED shellVars

\* resetCommandState, statement by statement.
ResetFlag ==
    /\ rt.routine = "serial" /\ rt.at = "reset_flag"
    /\ rt' = [rt EXCEPT !.Recv_Complete = FALSE, !.at = "reset_index"]
    /\ UNCHANGED shellVars

ResetIndex ==
    /\ rt.routine = "serial" /\ rt.at = "reset_index"
    /\ rt' = [rt EXCEPT !.bUart0_BufIndex = 0, !.at = "reset_buf"]
    /\ UNCHANGED shellVars

ResetBuffer ==
    /\ rt.routine = "serial" /\ rt.at = "reset_buf"
    /\ rt' = [rt EXCEPT !.Rx_buf = <<>>, !.at = "poll"]
    /\ UNCHANGED shellVars

InitSerial == InitWith({[i \in Motors |-> DefaultLimits]}, {DefaultVswr}, {<<TRUE, TRUE, TRUE>>})

NextSerial ==
    \/ HostByte
    \/ HostBurst
    \/ PollReceive
    \/ ReadIndex
    \/ CopyCommand
    \/ ProcessCommand
    \/ ResetFlag
    \/ ResetIndex
    \/ ResetBuffer

SpecSerial == InitSerial /\ [][NextSerial]_vars

\* ------------------------------------------------------------------------
\* The AMS loop with a sensor whose hold times out
\* ------------------------------------------------------------------------

\* The (R, X) of the result calculateAveragedImpedance returns when the
\* hold is not confirmed within its polls: every field 0.
ZeroSample == <<0, 0>>

\* What the input sensor may return: the zeroed result or a perfect match.
HoldSamples == {ZeroSample, <<50, 0>>}

InitHold ==
    InitWith({[i \in Motors |-> DefaultLimits]}, FramVswrRecords, {<<TRUE, TRUE, TRUE>>})

NextHold ==
    \/ Boot
    \/ \E args \in {<<>>, <<Word_stop>>} : CmdAms(args)
    \/ \E args \in AsvArgs, saveOk \in BOOLEAN : CmdAsv(args, saveOk)
    \/ \E iRes \in HoldSamples, oRes \in OutSamples :
          \E sol \in SolverDraw(SolverReached(iRes, oRes)) : HandleStreaming(iRes, oRes, sol)

SpecHold == InitHold /\ [][NextHold]_vars

\* ------------------------------------------------------------------------
\* The sensor streams of a shell constructed without one of its sensors
\* ------------------------------------------------------------------------

Word_x == <<"x">>

\* The sensor a stream samples through iSensor_ or oSensor_.
SensorWired(st) ==
    IF st \in {"imp_i", "vi_i"} THEN iSensor_
    ELSE IF st \in {"imp_o", "vi_o"} THEN oSensor_
    ELSE TRUE

\* A stream about to send in the tick at currentTime calls
\* calculateAveragedImpedance through a null pointer.
NullSensorDue(currentTime) == \E st \in Streams : StreamDue(st, currentTime) /\ ~SensorWired(st)

\* One pass of handleStreaming where a sensor may be missing.  The call
\* through a null pointer is undefined: either the pass goes on with
\* whatever the reads at low addresses return, or the processor takes a
\* data abort and the firmware stops.
HandleStreamingUnwired(iRes, oRes, sol) ==
    \/ HandleStreaming(iRes, oRes, sol)
    \/ /\ pc \in {"shell", "stream"}
       /\ loopCounter_ < MaxLoop
       /\ NullSensorDue((loopCounter_ + 1) * LoopPeriodMs)
       /\ pc' = "fault"
       /\ ev' = [Event("tick", "fault") EXCEPT !.now = (loopCounter_ + 1) * LoopPeriodMs]
       /\ UNCHANGED <<presenceVars, loopCounter_, streamVars, amsVars, matcherInfo, M,
                      regVars, fram, tx, motorCmd>>

\* rrs and rrv as typed here: the output sensor is never named, and x
\* stands for any word that is neither i nor o.
WiredArgs ==
    { <<Word_i, Word_run, IntText(10)>>,
      <<Word_x, Word_run, IntText(10)>>,
      <<Word_i, Word_stop>>,
      <<Word_x>> }

\* The shell with both sensors, without the input sensor, and without the
\* output sensor.
WiredPresence == {<<TRUE, TRUE, TRUE>>, <<FALSE, TRUE, TRUE>>, <<TRUE, FALSE, TRUE>>}

InitWired == InitWith({[i \in Motors |-> DefaultLimits]}, {DefaultVswr}, WiredPresence)

NextWired ==
    \/ Boot
    \/ \E args \in WiredArgs : CmdRrs(args)
    \/ \E args \in WiredArgs : CmdRrv(args)
    \/ \E oRes \in OutSamples : HandleStreamingUnwired(<<10, 40>>, oRes, NoSolution)

SpecWired == InitWired /\ [][NextWired]_vars

\* ------------------------------------------------------------------------
\* RFSensor::calculateAveragedImpedance: the entries the averaging loop reads
\* ------------------------------------------------------------------------

\* int start_addr = ((int)hold_index - avgCount + fftLength) % fftLength;
\* the operands are not negative for the indices and counts explored.
startAddr(hold_index, avgCount) == (hold_index - avgCount + kFftLength) % kFftLength

bramAddr_NoWrap(start_addr, idx) == start_addr + idx

\* int bram_addr = (start_addr + idx) % fftLength;
bramAddr(start_addr, idx) == (start_addr + idx) % kFftLength

\* The addresses the loop for (idx = 0; idx < avgCount; ++idx) reads in
\* one buffer, in order.
bramAddrs(hold_index, avgCount) ==
    [j \in 1..avgCount |-> bramAddr(startAddr(hold_index, avgCount), j - 1)]

\* calculateAveragedImpedance(avgCount) on a sensor whose member avgCount_
\* is given and whose hold is confirmed with the write indices hold_index_v
\* and hold_index_i: the count after its range checks and the addresses
\* read in the voltage and in the current buffers.
AveragingLoop(avgCount, avgCount_, hold_index_v, hold_index_i) ==
    /\ rt' = [routine |-> "window", avgCountArg |-> avgCount, avgCount_ |-> avgCount_,
              hold_index_v |-> hold_index_v, hold_index_i |-> hold_index_i,
              avgCount |-> avgCountOf(avgCount, avgCount_),
              addr_v |-> bramAddrs(hold_index_v, avgCountOf(avgCount, avgCount_)),
              addr_i |-> bramAddrs(hold_index_i, avgCountOf(avgCount, avgCount_))]
    /\ UNCHANGED shellVars

\* The counts asked for, the values setAvgCount and the constructor leave
\* in avgCount_, and the write indices of the voltage buffer; the current
\* buffer is at the same index or one further.
WindowCounts == {-7, -1, 0, 1, 2, kFftLength - 1, kFftLength, kFftLength + 1}

WindowMembers == {3, 512}

WindowIndices == {0, 1, 2, 3, 511, 512, kFftLength - 2, kFftLength - 1}

InitWindow == InitWith({[i \in Motors |-> DefaultLimits]}, {DefaultVswr}, {<<TRUE, TRUE, TRUE>>})

NextWindow ==
    \E avgCount \in WindowCounts, avgCount_ \in WindowMembers, hold_index_v \in WindowIndices :
       \E hold_index_i \in {hold_index_v, (hold_index_v + 1) % kFftLength} :
          AveragingLoop(avgCount, avgCount_, hold_index_v, hold_index_i)

SpecWindow == InitWindow /\ [][NextWindow]_vars

\* ------------------------------------------------------------------------
\* MotorController::SetMotorOrigin and SetMotorOriginOnIndex, write by write
\* ------------------------------------------------------------------------

\* A 32-bit register word is carried as the signed number with the same
\* bits.  ((uint32_t)position) << 2: the low 30 bits of position, moved up
\* by two.
baseValueOf(position) ==
    IF position % (2^30) < 2^29 THEN (position % (2^30)) * 4
    ELSE ((position % (2^30)) - 2^30) * 4

\* word | mask for a mask of the two low bits.
OrLowBits(word, mask) ==
    (word - (word % 4))
    + (IF (word % 2 = 1) \/ (mask % 2 = 1) THEN 1 ELSE 0)
    + (IF ((word % 4) \div 2 = 1) \/ ((mask % 4) \div 2 = 1) THEN 2 ELSE 0)

\* Bit 0 and bit 1 of a word.
Bit0(word) == word % 2

Bit1(word) == (word % 4) \div 2

OriginIdle == [routine |-> "origin", at |-> "idle", motor |-> 0, position |-> 0,
               trigger |-> 0, result |-> "", writes |-> <<>>,
               tarPosBefore |-> 0, originBefore |-> 0]

OriginState == IF rt.routine = "origin" THEN rt ELSE OriginIdle

\* The call and the test of gpioInitialized; trigger is the bit the
\* function raises.
OriginEnter(i, position, trigger, first) ==
    /\ OriginState.at = "idle"
    /\ rt' = [OriginState EXCEPT !.motor = i, !.position = position, !.trigger = trigger,
                                 !.writes = <<>>,
                                 !.tarPosBefore = tarPosReg[i],
                                 !.originBefore = originReg[i],
                                 !.result = "",
                                 !.at = IF M[i].gpioInitialized THEN first ELSE "fail"]
    /\ UNCHANGED shellVars

\* SetMotorOrigin(position): TAR_POS is written first.
EnterSetMotorOrigin(i, position) == OriginEnter(i, position, 1, "target")

\* SetMotorOriginOnIndex(position): TAR_POS is not written.
EnterSetMotorOriginOnIndex(i, position) == OriginEnter(i, position, 2, "prepare")

shellVarsButRegs == <<pc, iSensor_, oSensor_, mBoard_, loopCounter_, streamEnabled,
                      streamRate, lastStreamTime, amsEnabled_, amsMatching_, amsInterval_,
                      amsTimeout_, amsStartTime_, lastAmsTime_, amsVerbose_,
                      amsLogInterval_, amsLogCounter_, matcherInfo, M, nowPosReg, lastMove,
                      fram, tx, motorCmd, ev, cal_>>

\* gpioOut[0] = (uint32_t)position;
OriginWriteTarget ==
    /\ rt.routine = "origin" /\ rt.at = "target"
    /\ tarPosReg' = [tarPosReg EXCEPT ![rt.motor] = rt.position]
    /\ rt' = [rt EXCEPT !.at = "prepare",
                        !.writes = Append(@, <<"TAR_POS", rt.position>>)]
    /\ UNCHANGED <<shellVarsButRegs, originReg>>

\* One write of gpioOut[2], followed by usleep(200).
OriginWrite(at, value, next) ==
    /\ rt.routine = "origin" /\ rt.at = at
    /\ originReg' = [originReg EXCEPT ![rt.motor] = value]
    /\ rt' = [rt EXCEPT !.at = next, !.writes = Append(@, <<"SET_ORIGIN", value>>)]
    /\ UNCHANGED <<shellVarsButRegs, tarPosReg>>

\* gpioOut[2] = baseValue;
OriginWritePrepare == OriginWrite("prepare", baseValueOf(rt.position), "trigger")

OriginWriteTrigger_BothBits ==
    OriginWrite("trigger", OrLowBits(baseValueOf(rt.position), 3), "clear")

\* gpioOut[2] = baseValue | 0x1U; or baseValue | 0x2U;
OriginWriteTrigger ==
    OriginWrite("trigger", OrLowBits(baseValueOf(rt.position), rt.trigger), "clear")

\* gpioOut[2] = baseValue;
OriginWriteClear == OriginWrite("clear", baseValueOf(rt.position), "return")

\* if (!gpioInitialized || gpioOutBase == 0U) return XST_FAILURE;
OriginFail ==
    /\ rt.routine = "origin" /\ rt.at = "fail"
    /\ rt' = [rt EXCEPT !.at = "idle", !.result = "XST_FAILURE"]
    /\ UNCHANGED shellVars

\* return XST_SUCCESS;
OriginReturn ==
    /\ rt.routine = "origin" /\ rt.at = "return"
    /\ rt' = [rt EXCEPT !.at = "idle", !.result = "XST_SUCCESS"]
    /\ UNCHANGED shellVars

\* The positions written: small ones, negative ones and ones that do not
\* fit in 30 bits.
OriginPositions == {3, 640, -1, 2^29, 2^30 + 3}

\* Motor 0 initialised or not, motor 1 initialised.
OriginMotors ==
    {[i \in Motors |-> [MotorDefaults EXCEPT !.gpioInitialized = (i = 1 \/ ok)]] :
        ok \in BOOLEAN}

InitOrigin ==
    InitWithMotors({[i \in Motors |-> DefaultLimits]}, {DefaultVswr}, {<<TRUE, TRUE, TRUE>>},
                   OriginMotors)

NextOrigin ==
    \/ \E i \in Motors, position \in OriginPositions : EnterSetMotorOrigin(i, position)
    \/ \E i \in Motors, position \in OriginPositions : EnterSetMotorOriginOnIndex(i, position)
    \/ OriginWriteTarget
    \/ OriginWritePrepare
    \/ OriginWriteTrigger
    \/ OriginWriteClear
    \/ OriginFail
    \/ OriginReturn

SpecOrigin == InitOrigin /\ [][NextOrigin]_vars

\* ------------------------------------------------------------------------
\* DebugMode::processCommand: the tokenizer
\* ------------------------------------------------------------------------

\* char tokens[16][64];
MaxTokens == 16

TAB == "\t"

\* The tokenizer's state: the bytes stored in each row of tokens (rows
\* start uninitialised, none of their bytes known), tokenCount, the place
\* currentToken points to, currentLen, and whether a byte was stored
\* outside the array.
TokenizerStart ==
    [tokens |-> [row \in 0..(MaxTokens - 1) |-> <<>>], tokenCount |-> 0,
     row |-> 0, col |-> 0, currentLen |-> 0, outside |-> FALSE]

\* *currentToken = c;
StoreToken(t, c) ==
    IF t.row \in 0..(MaxTokens - 1) /\ t.col \in 0..TokenChars /\ t.col <= Len(t.tokens[t.row])
    THEN [t EXCEPT !.tokens[t.row] = SubSeq(@, 1, t.col) \o <<c>>]
    ELSE [t EXCEPT !.outside = TRUE]

\* *currentToken = '\0'; tokenCount++;
TokenEnd(t) == [StoreToken(t, NUL) EXCEPT !.tokenCount = t.tokenCount + 1]

\* currentToken = tokens[tokenCount]; currentLen = 0;
NextToken(t) == [t EXCEPT !.row = t.tokenCount, !.col = 0, !.currentLen = 0]

\* *currentToken++ = *p; currentLen++;
TokenByte(t, c) ==
    [StoreToken(t, c) EXCEPT !.col = t.col + 1, !.currentLen = t.currentLen + 1]

TokenStep_NoLengthGuard(t, c) ==
    IF c \in {" ", TAB, CR, LF}
    THEN IF t.currentLen > 0 THEN NextToken(TokenEnd(t)) ELSE t
    ELSE TokenByte(t, c)

\* The body of the while loop for the byte c.
TokenStep(t, c) ==
    IF c \in {" ", TAB, CR, LF}
    THEN IF t.currentLen > 0 THEN NextToken(TokenEnd(t)) ELSE t
    ELSE IF t.currentLen < TokenChars THEN TokenByte(t, c)
    ELSE t

\* while (*p && tokenCount < 16) { ... p++; }
RECURSIVE TokenLoop(_, _, _)
TokenLoop(cmd, p, t) ==
    IF p > Len(cmd) \/ t.tokenCount >= MaxTokens THEN t
    ELSE TokenLoop(cmd, p + 1, TokenStep(t, cmd[p]))

\* if (currentLen > 0) { *currentToken = '\0'; tokenCount++; }
TokenLast(t) == IF t.currentLen > 0 THEN TokenEnd(t) ELSE t

\* expandAbbreviations on one argument: the bytes before the NUL, at most
\* 63 of them, are made small letters.
LowerArg(arg) ==
    [j \in 1..Len(arg) |->
        IF j <= Len(CString(arg)) /\ j <= TokenChars THEN ToLower(<<arg[j]>>)[1] ELSE arg[j]]

\* expandAbbreviations(argc, argv)
expandAbbreviations(argc, argv) ==
    [row \in 0..(MaxTokens - 1) |-> IF row < argc THEN LowerArg(argv[row]) ELSE argv[row]]

\* What processCommand hands to executeCommand.
Dispatched(cmd, t) ==
    [routine |-> "tokens", cmd |-> cmd, echoed |-> TRUE, dispatched |-> t.tokenCount > 0,
     argc |-> t.tokenCount, outside |-> t.outside,
     argv |-> IF t.tokenCount > 0 THEN expandAbbreviations(t.tokenCount, t.tokens)
              ELSE t.tokens]

\* processCommand(cmd): an empty line returns at once; the others are
\* echoed, tokenized, made small and handed to executeCommand.
Tokenize(cmd) ==
    /\ rt' = IF Len(cmd) = 0
             THEN [routine |-> "tokens", cmd |-> cmd, echoed |-> FALSE, dispatched |-> FALSE,
                   argc |-> 0, outside |-> FALSE, argv |-> TokenizerStart.tokens]
             ELSE Dispatched(cmd, TokenLast(TokenLoop(cmd, 1, TokenizerStart)))
    /\ UNCHANGED shellVars

\* The k-th word of a line, len bytes long.
LineWord(k, len) == [j \in 1..len |-> <<"A", "b", "F", "1">>[((j + k) % 4) + 1]]

\* n words, the word at place longAt of longLen bytes and the others of
\* one or two, with sep between them.
RECURSIVE LineFrom(_, _, _, _, _)
LineFrom(k, n, longAt, longLen, sep) ==
    IF k > n THEN <<>>
    ELSE LineWord(k, IF k = longAt THEN longLen ELSE (k % 2) + 1)
         \o (IF k < n THEN sep ELSE <<>>)
         \o LineFrom(k + 1, n, longAt, longLen, sep)

\* Lines of none to 18 words, with a word of 63, 64 or 100 bytes first or
\* last, separated by blanks, tabs or line ends, with and without blanks
\* around them; and a line of 255 bytes that is one word.
LineWordCounts == {0, 1, 2, MaxTokens, MaxTokens + 1, MaxTokens + 2}

LineSeparators == {<<TAB, " ">>, <<CR, LF>>}

CommandLines ==
    { pad \o LineFrom(1, n, IF first THEN 1 ELSE n, longLen, sep) \o pad :
        n \in LineWordCounts, first \in BOOLEAN,
        longLen \in {1, TokenChars, TokenChars + 1, 100},
        sep \in LineSeparators, pad \in {<<>>, <<" ">>} }
    \cup {LineWord(1, CmdBufferSize - 1)}

InitTokens == InitWith({[i \in Motors |-> DefaultLimits]}, {DefaultVswr}, {<<TRUE, TRUE, TRUE>>})

NextTokens == \E cmd \in CommandLines : Tokenize(cmd)

SpecTokens == InitTokens /\ [][NextTokens]_vars

\* ------------------------------------------------------------------------
\* Properties
\* ------------------------------------------------------------------------

\* The last step was a loop tick.
IsTick == ev.op = "tick"

\* The last step was a tick whose AMS block sampled the sensors and
\* evaluated the state machine, starting in Monitoring or in Matching.
MonitoringEval == IsTick /\ ev.wasEnabled /\ ~ev.wasMatching /\ ev.sampled

MatchingEval == IsTick /\ ev.wasEnabled /\ ev.wasMatching /\ ev.sampled

\* The last step was a tick that found AMS enabled with its timeout expired.
\* A tick changes neither the timeout nor the start time.
TimeoutTick ==
    /\ IsTick /\ ev.wasEnabled
    /\ amsTimeout_ > 0
    /\ ev.now - amsStartTime_ >= amsTimeout_

\* tx holds frame a immediately followed by frame b.
EmittedInOrder(a, b) == \E k \in 1..(Len(tx) - 1) : tx[k] = a /\ tx[k + 1] = b

Emitted(a) == \E k \in 1..Len(tx) : tx[k] = a

\* C1: a tick writes a motor target only if it found AMS enabled and in
\* Matching mode and sampled an input VSWR above vswr_stop; so no tick
\* writes one while AMS is disabled (after ams stop or a timeout, until the
\* next start) or in Monitoring mode.
C1_AmsWritesOnlyWhenMatching ==
    (IsTick /\ motorCmd /= <<>>) =>
        /\ ev.wasEnabled
        /\ ev.wasMatching
        /\ ev.sampled
        /\ ev.vswr > matcherInfo.vswrStop

\* An AMS tick that wrote both motors' targets.
C1_Witness ==
    /\ IsTick /\ Len(motorCmd) = 2
    /\ ev.wasEnabled /\ ev.wasMatching /\ ev.vswr > matcherInfo.vswrStop

\* C2: in every state Matching mode implies AMS enabled, and right after
\* the tick that detects the timeout AMS is disabled.
C2_MatchingImpliesEnabled ==
    /\ amsMatching_ => amsEnabled_
    /\ TimeoutTick => ~amsEnabled_

\* AMS was started, ran into its timeout, and the tick disabled it.
C2_Witness == TimeoutTick /\ ~amsEnabled_ /\ ~amsMatching_ /\ ev.wasMatching

\* C3: a tick that finds AMS enabled with timeout > 0 and now - start_time
\* >= timeout disables AMS, emits AMS,TIMEOUT,<elapsed>,EN followed by
\* ACK,ams,TIMEOUT, samples no sensor and commands no motor; so no tick
\* samples or commands a motor at a loop time >= start_time + timeout, and
\* with timeout = 0 no tick disables AMS.
C3_TimeoutTick ==
    /\ TimeoutTick =>
          /\ ~amsEnabled_
          /\ EmittedInOrder(Frame("AMS", "TIMEOUT", "", <<ev.now - amsStartTime_>>),
                            Ack("ams", "TIMEOUT"))
          /\ ~ev.sampled
          /\ motorCmd = <<>>
    /\ (IsTick /\ ev.wasEnabled /\ amsTimeout_ > 0 /\ (ev.sampled \/ motorCmd /= <<>>)) =>
          ev.now < amsStartTime_ + amsTimeout_
    /\ (IsTick /\ ev.wasEnabled /\ amsTimeout_ = 0) => amsEnabled_

\* The tick at which a 100 ms timeout expires.
C3_Witness ==
    /\ TimeoutTick
    /\ ev.now - amsStartTime_ = amsTimeout_
    /\ Emitted(Ack("ams", "TIMEOUT"))

\* C4: an evaluated tick of an enabled AMS in Monitoring switches to
\* Matching exactly when the sampled VSWR is at or above vswr_restart, and
\* otherwise changes nothing and commands no motor; in neither case is a
\* motor commanded.  With vswr_restart above 1.0, a sample of VSWR 1.0
\* leaves AMS in Monitoring.
C4_MonitoringRestart ==
    /\ MonitoringEval =>
          /\ amsMatching_ <=> (ev.vswr >= matcherInfo.vswrRestart)
          /\ amsEnabled_
          /\ motorCmd = <<>>
    /\ (MonitoringEval /\ ev.vswr = 1000 /\ matcherInfo.vswrRestart > 1000) =>
          (~amsMatching_ /\ motorCmd = <<>>)

\* A Monitoring tick that sampled a perfect match below the restart
\* threshold and stayed in Monitoring.
C4_Witness ==
    /\ MonitoringEval /\ ev.vswr = 1000 /\ matcherInfo.vswrRestart > 1000
    /\ ~amsMatching_ /\ amsEnabled_

\* C4 as stated: the same rule, and with a perfect 50 ohm input (VSWR 1.0)
\* an evaluated Monitoring tick stays in Monitoring and commands no motor,
\* whatever the thresholds.
C4_AsStated ==
    /\ MonitoringEval =>
          /\ amsMatching_ <=> (ev.vswr >= matcherInfo.vswrRestart)
          /\ amsEnabled_
          /\ motorCmd = <<>>
    /\ (MonitoringEval /\ ev.vswr = 1000) => (~amsMatching_ /\ motorCmd = <<>>)

\* C5: an evaluated tick of an enabled AMS in Matching that samples a VSWR
\* at or below vswr_stop switches to Monitoring, emits AMS,MATCHED,<vswr>,EN,
\* leaves AMS enabled and commands no motor; with a VSWR above vswr_stop it
\* stays in Matching.
C5_MatchingStop ==
    /\ (MatchingEval /\ ev.vswr <= matcherInfo.vswrStop) =>
          /\ ~amsMatching_
          /\ amsEnabled_
          /\ Emitted(Frame("AMS", "MATCHED", "", <<ev.vswr>>))
          /\ motorCmd = <<>>
    /\ (MatchingEval /\ ev.vswr > matcherInfo.vswrStop) => (amsMatching_ /\ amsEnabled_)

\* A Matching tick that sampled a VSWR at or below the stop threshold.
C5_Witness ==
    /\ MatchingEval /\ ev.vswr <= matcherInfo.vswrStop
    /\ ~amsMatching_ /\ amsEnabled_

\* A goal capacitance (thousandths of a pF) lies in a motor's capacitance
\* band (pF x 100) after the conversion to pF x 100.
InCapBand(vvc, i) == TruncDiv(vvc, 10) >= M[i].minCap /\ TruncDiv(vvc, 10) <= M[i].maxCap

Goal0Qualifies(g) == g.valid0 /\ InCapBand(g.VVC0Goal0, 0) /\ InCapBand(g.VVC1Goal0, 1)

Goal1Qualifies(g) == g.valid1 /\ InCapBand(g.VVC0Goal1, 0) /\ InCapBand(g.VVC1Goal1, 1)

\* motorCmd is a move of motor 0 to step0 followed by a move of motor 1 to
\* step1, both through RunMotor.
MovedBoth(step0, step1) ==
    /\ Len(motorCmd) = 2
    /\ motorCmd[1].motor = 0 /\ motorCmd[1].kind = "run" /\ motorCmd[1].target = step0
    /\ motorCmd[2].motor = 1 /\ motorCmd[2].kind = "run" /\ motorCmd[2].target = step1

\* C6: in a Matching tick with VSWR above vswr_stop, goal 0 is used if it is
\* valid and both its capacitances lie in the motors' bands, otherwise
\* goal 1 under the same test; motor 0 and then motor 1 are commanded to
\* the chosen goal's steps; if neither goal qualifies no motor is commanded
\* and AMS stays enabled in Matching.
C6_GoalSelection ==
    (MatchingEval /\ ev.vswr > matcherInfo.vswrStop) =>
        /\ Goal0Qualifies(ev.goals) => MovedBoth(ev.goals.step0Goal0, ev.goals.step1Goal0)
        /\ (~Goal0Qualifies(ev.goals) /\ Goal1Qualifies(ev.goals)) =>
              MovedBoth(ev.goals.step0Goal1, ev.goals.step1Goal1)
        /\ (~Goal0Qualifies(ev.goals) /\ ~Goal1Qualifies(ev.goals)) =>
              (motorCmd = <<>> /\ amsEnabled_ /\ amsMatching_)

\* A Matching tick whose goal 0 was flagged valid but out of band, so that
\* goal 1 was used.
C6_Witness ==
    /\ MatchingEval /\ ev.vswr > matcherInfo.vswrStop
    /\ ev.goals.valid0 /\ ~Goal0Qualifies(ev.goals) /\ Goal1Qualifies(ev.goals)
    /\ MovedBoth(ev.goals.step0Goal1, ev.goals.step1Goal1)

\* clamp(target, lower, upper)
Clamp(target, lower, upper) ==
    IF target < lower THEN lower ELSE IF target > upper THEN upper ELSE target

\* C7: every RunMotor write is exactly clamp(target, lower_limit,
\* upper_limit) when lower_limit <= upper_limit, and every value RunMotor
\* writes lies in [lower_limit, upper_limit], whatever limits the shell set.
C7_RunWritesInsideLimits ==
    \A k \in 1..Len(motorCmd) :
        motorCmd[k].kind = "run" =>
            LET m == M[motorCmd[k].motor]
            IN  /\ m.lowerLimit <= m.upperLimit =>
                      motorCmd[k].value = Clamp(motorCmd[k].target, m.lowerLimit, m.upperLimit)
                /\ m.lowerLimit <= motorCmd[k].value
                /\ motorCmd[k].value <= m.upperLimit

\* mr wrote a target above the upper limit after msl stored a window with
\* lower_limit above upper_limit.
C7_Witness ==
    /\ ev.op = "mr" /\ Len(motorCmd) = 1
    /\ M[0].lowerLimit = 50 /\ M[0].upperLimit = 10
    /\ motorCmd[1].value > M[0].upperLimit

\* A force move of motor i has not arrived yet.
ForceInFlight(i) == lastMove[i] = "force" /\ nowPosReg[i] /= tarPosReg[i]

\* C8: after every loop tick, for every motor, min <= lower <= pos <= upper
\* <= max unless a force move is in flight.
C8_PositionInsideLimits ==
    (IsTick /\ pc = "shell") =>
        \A i \in Motors :
            ForceInFlight(i) \/
                /\ M[i].minValue <= M[i].lowerLimit
                /\ M[i].lowerLimit <= readPos(i)
                /\ readPos(i) <= M[i].upperLimit
                /\ M[i].upperLimit <= M[i].maxValue

\* After a tick, with the limits in order, a completed force move has left
\* motor 0 below its lower limit.
C8_Witness ==
    /\ IsTick /\ pc = "shell"
    /\ lastMove[0] = "force" /\ nowPosReg[0] = tarPosReg[0]
    /\ M[0].minValue <= M[0].lowerLimit /\ M[0].lowerLimit <= M[0].upperLimit
    /\ M[0].upperLimit <= M[0].maxValue
    /\ readPos(0) < M[0].lowerLimit

\* C9: after any shell commands and FRAM loads every motor record has
\* min <= lower_limit <= upper_limit <= max.
C9_LimitsOrdered ==
    \A i \in Motors :
        /\ M[i].minValue <= M[i].lowerLimit
        /\ M[i].lowerLimit <= M[i].upperLimit
        /\ M[i].upperLimit <= M[i].maxValue

\* msl was acknowledged with OK and left min above max and lower above upper.
C9_Witness ==
    /\ ev.op = "msl" /\ Emitted(Ack("msl", "OK"))
    /\ M[0].minValue > M[0].maxValue
    /\ M[0].lowerLimit > M[0].upperLimit

\* C10: after any asv commands and FRAM loads the thresholds satisfy
\* vswr_stop <= vswr_start <= vswr_restart <= 10.
C10_ThresholdsOrdered ==
    /\ matcherInfo.vswrStop <= matcherInfo.vswrStart
    /\ matcherInfo.vswrStart <= matcherInfo.vswrRestart
    /\ matcherInfo.vswrRestart <= 10000

\* asv was acknowledged with OK and left vswr_stop above vswr_start and
\* above vswr_restart.
C10_Witness ==
    /\ ev.op = "asv" /\ Emitted(Ack("asv", "OK"))
    /\ matcherInfo.vswrStop > matcherInfo.vswrStart
    /\ matcherInfo.vswrStop > matcherInfo.vswrRestart

\* A step target lies in motor i's operating window.
StepInWindow(i, step) == M[i].lowerLimit <= step /\ step <= M[i].upperLimit

\* The last step ran the goal selection: an evaluated Matching tick that got
\* as far as the solver, or amr.
GoalSelectionRan == ev.op \in {"tick", "amr"} /\ ev.path \in {"run", "nogoal"}

\* C11: the AMS tick and amr select a goal only if both of its step targets
\* lie in the motors' operating windows [lower_limit, upper_limit]; a goal
\* with a step target outside the window is not selected.
C11_SelectedGoalInsideWindow ==
    /\ (GoalSelectionRan /\ ev.selectedGoal = 0) =>
          (StepInWindow(0, ev.goals.step0Goal0) /\ StepInWindow(1, ev.goals.step1Goal0))
    /\ (GoalSelectionRan /\ ev.selectedGoal = 1) =>
          (StepInWindow(0, ev.goals.step0Goal1) /\ StepInWindow(1, ev.goals.step1Goal1))

\* An AMS tick selected goal 0 although its step target for motor 0 is
\* below the window and goal 1 lies inside both windows; the write to motor
\* 0 was clamped to the lower limit.
C11_Witness ==
    /\ IsTick /\ ev.path = "run" /\ ev.selectedGoal = 0
    /\ ev.goals.step0Goal0 < M[0].lowerLimit
    /\ Goal1Qualifies(ev.goals)
    /\ StepInWindow(0, ev.goals.step0Goal1) /\ StepInWindow(1, ev.goals.step1Goal1)
    /\ Len(motorCmd) = 2 /\ motorCmd[1].value = M[0].lowerLimit
    /\ motorCmd[1].value /= motorCmd[1].target

\* The step is a loop tick that enters the AMS block, and one that enters
\* it less than amsInterval_ ms after the last evaluation.
AmsTickStep == ev'.op = "tick" /\ AmsBlockEntered

WaitStep == AmsTickStep /\ ev'.now - lastAmsTime_ < amsInterval_

\* C12: an AMS tick with now - last_tick_time < interval, whose timeout has
\* not expired, samples no sensor, changes no AMS state and commands no
\* motor; with the timeout expired it still samples nothing, commands no
\* motor and leaves last_tick_time and log_counter.  last_tick_time changes
\* in a tick only when the tick evaluates, to the time of the tick, and an
\* evaluation happens only at least interval ms after last_tick_time, which
\* never decreases; so consecutive evaluations are at least interval apart.
C12_IntervalWait ==
    [][ /\ (WaitStep /\ ~TimedOut(ev'.now - amsStartTime_)) =>
              (UNCHANGED amsVars /\ ~ev'.sampled /\ motorCmd' = <<>>)
        /\ WaitStep =>
              /\ ~ev'.sampled /\ motorCmd' = <<>>
              /\ UNCHANGED <<lastAmsTime_, amsLogCounter_>>
        /\ (ev'.op = "tick" /\ lastAmsTime_' /= lastAmsTime_) =>
              (ev'.sampled /\ lastAmsTime_' = ev'.now)
        /\ (ev'.op = "tick" /\ ev'.sampled) =>
              (ev'.now - lastAmsTime_ >= amsInterval_ /\ lastAmsTime_' = ev'.now)
        /\ lastAmsTime_' >= lastAmsTime_ ]_vars

\* A tick of an enabled AMS, 20 ms after the last evaluation with an
\* interval of 30 ms, that did nothing.
C12_Witness ==
    /\ IsTick /\ ev.path = "wait" /\ ev.wasEnabled /\ ~ev.sampled
    /\ amsInterval_ = 30 /\ ev.now - lastAmsTime_ = 20
    /\ amsEnabled_ /\ motorCmd = <<>>

\* C12 as stated: every AMS tick with now - last_tick_time < interval
\* leaves mode, last_tick_time and log_counter, samples nothing and
\* commands no motor.
C12_AsStated ==
    [][ WaitStep =>
          /\ UNCHANGED <<amsMatching_, lastAmsTime_, amsLogCounter_>>
          /\ ~ev'.sampled /\ motorCmd' = <<>> ]_vars

\* Both sensors and the MotionBoard are present.
AllPresent == iSensor_ /\ oSensor_ /\ mBoard_

\* The forms of ams that start AMS.
StartForms == StartAmsArgs \ {<<Word_stop>>}

\* C13: ams start with both sensors and the MotionBoard present sets
\* enabled, mode Matching, start_time = last_tick_time = the current loop
\* time and log_counter = 0; with a sensor or the board absent it replies
\* ACK,ams,ERROR and leaves every AMS variable unchanged.
C13_AmsStart ==
    [][ \A args \in StartForms :
          CmdAms(args) =>
             IF AllPresent
             THEN /\ amsEnabled_' /\ amsMatching_'
                  /\ amsStartTime_' = loopCounter_ * 10
                  /\ lastAmsTime_' = loopCounter_ * 10
                  /\ amsLogCounter_' = 0
             ELSE /\ \E k \in 1..Len(tx') : tx'[k] = Ack("ams", "ERROR")
                  /\ UNCHANGED amsVars ]_vars

\* ams was typed to a shell without an input sensor and answered with
\* ACK,ams,ERROR.
C13_Witness ==
    /\ ev.op = "ams" /\ ev.path = "error" /\ ~iSensor_
    /\ Emitted(Ack("ams", "ERROR"))
    /\ ~amsEnabled_ /\ ~amsMatching_

\* C14: ams start <interval> <timeout> <logInterval> starts AMS with the
\* three numbers, each clamped to its range, as interval, timeout and log
\* interval (here 20, 200 and 3, all in range).
C14_StartWithNumbers ==
    [][ (CmdAms(<<Word_start, IntText(20), IntText(200), IntText(3)>>) /\ AllPresent) =>
          /\ amsEnabled_'
          /\ amsInterval_' = Clamp(20, 1, 1000)
          /\ amsTimeout_' = Clamp(200, 100, 60000)
          /\ amsLogInterval_' = Clamp(3, 1, 1000) ]_vars

\* AMS was started with the word start taken as the interval (1 after the
\* range check), the interval typed taken as the timeout (raised to 100)
\* and the timeout typed taken as the log interval.
C14_Witness ==
    /\ ev.op = "ams" /\ ev.path = "start" /\ amsEnabled_
    /\ amsInterval_ = 1 /\ amsTimeout_ = 100 /\ amsLogInterval_ = 200

\* C15: ams without parameters starts AMS with the persisted settings: the
\* interval, timeout and log interval that matcherInfo holds (from the boot
\* load or from ass) and that FRAM stores.
C15_StartUsesPersisted ==
    [][ (CmdAms(<<>>) /\ AllPresent) =>
          /\ amsInterval_' = matcherInfo.amsInterval
          /\ amsTimeout_' = matcherInfo.amsTimeout
          /\ amsLogInterval_' = matcherInfo.amsLogInterval ]_vars

\* ass stored 30, 0, 5 in matcherInfo and in FRAM, and an AMS started
\* afterwards runs with 10, 5000, 1.
C15_Witness ==
    /\ ev.op = "ams" /\ ev.path = "start" /\ amsEnabled_
    /\ matcherInfo.amsInterval = 30 /\ fram.ams = <<30, 0, 5>>
    /\ amsInterval_ = 10 /\ amsTimeout_ = 5000 /\ amsLogInterval_ = 1

\* A call of sample is being followed, and it has returned.
Sampling == rt.routine = "sample"

SampleDone == Sampling /\ rt.at = "done"

\* C16: sample polls the hold status at most 100 times; when the hold is
\* not acknowledged within them it clears hold and returns the all-zero
\* result without reading a buffer entry, and it returns the zero result
\* only then; on every return hold has been released; buffer entries are
\* read only while hold is raised and acknowledged on both flags.
C16_HoldHandshake ==
    Sampling =>
        /\ rt.polls <= 100
        /\ SampleDone => ~rt.hold
        /\ (SampleDone /\ ~(rt.hold_ok_v /\ rt.hold_ok_i)) => (rt.idx = 0 /\ rt.zeroResult)
        /\ (SampleDone /\ rt.zeroResult) => (rt.polls = 100 /\ rt.idx = 0)
        /\ rt.idx > 0 => (rt.hold_ok_v /\ rt.hold_ok_i)
        /\ rt.at = "read" => rt.hold
        /\ ~rt.readUnheld

\* A sample on a sensor with a gate register whose hold was never
\* acknowledged on both flags: 100 polls, hold released, zero result.
C16_Witness ==
    /\ SampleDone /\ rt.gate /\ rt.zeroResult
    /\ rt.polls = 100 /\ rt.idx = 0 /\ ~rt.hold
    /\ rt.hold_ok_v /\ ~rt.hold_ok_i

\* A call of rewindMotor on a motor with GPIO is being followed; it has
\* left its loop; it has returned.
Rewinding == rt.routine = "rewind" /\ rt.gpioInitialized

RewindLeftLoop == Rewinding /\ rt.at \in {"settle", "done"}

RewindDone == Rewinding /\ rt.at = "done"

\* The motor moved fewer steps than the threshold on each of the last two
\* polls.
StalledTwice == Len(rt.below) = 2 /\ rt.below[1] /\ rt.below[2]

\* The motor ran normally for 1200 ms and then stood still for two polls.
StallAfter1200 == rt.elapsedMs = 1220 /\ rt.irregular = 2 /\ StalledTwice

\* C17: rewind declares a stall exactly when the motor moved fewer steps
\* than the threshold towards the rewind target on 2 consecutive polls (a
\* poll with normal movement in between starts the count again); it then
\* writes current position + offset to the target register, clears the
\* override RPM and returns completed = true.  For a motor that runs for
\* 1200 ms and then stalls it returns completed = true, final_pos <
\* start_pos and movement > 0.
C17_RewindStall ==
    Rewinding =>
        /\ rt.at = "poll" => (~StalledTwice /\ ~rt.completed)
        /\ RewindLeftLoop => (rt.completed <=> StalledTwice)
        /\ (rt.at = "settle" /\ rt.completed) => rt.tarPos = rt.pos + 1000
        /\ (RewindDone /\ rt.completed) =>
              /\ rt.overrideRpmValue = 0
              /\ rt.tarPos - 1000 \in {rt.finalPos - d : d \in SettleMoves(TRUE)}
        /\ (RewindDone /\ StallAfter1200) =>
              (rt.completed /\ rt.finalPos < rt.startPos /\ rt.movement > 0)

\* A rewind with override RPM available that ran 1200 ms, met two polls
\* without movement and has returned.
C17_Witness ==
    /\ RewindDone /\ rt.extGpioInitialized /\ StallAfter1200
    /\ rt.completed /\ rt.finalPos < rt.startPos /\ rt.movement > 0
    /\ rt.overrideRpmValue = 0

FindingIndex == rt.routine = "find_index"

\* C18: rewind and find_index end whatever the registers read: rewind makes
\* at most 25 s of 10 ms polls and find_index polls no longer than its
\* computed time budget; the result of rewind has completed = false when
\* the budget ran out without a confirmed stall, both results carry the
\* final position, and when either routine has returned the override RPM
\* is 0.
C18_HomingBounded ==
    /\ rt.routine = "rewind" =>
          /\ rt.elapsedMs <= 25000
          /\ rt.elapsedMs = rt.stepsTaken * 10
          /\ (RewindLeftLoop /\ ~StalledTwice) => (~rt.completed /\ rt.elapsedMs = 25000)
          /\ rt.at = "done" => (rt.overrideRpmValue = 0 /\ rt.finalPos = rt.pos)
    /\ FindingIndex =>
          /\ rt.elapsedUs <= rt.timeoutUs
          /\ rt.elapsedUs = rt.stepsTaken * 1000
          /\ rt.extGpioInitialized => rt.timeoutUs = 5002000
          /\ (rt.at # "poll" /\ rt.exit = "timeout") => rt.elapsedUs = rt.timeoutUs
          /\ rt.at = "done" => (rt.overrideRpmValue = 0 /\ rt.finalPos = rt.pos)

\* A rewind with override RPM available that never met an irregular poll
\* and returned after 2500 polls.
C18_Witness ==
    /\ RewindDone /\ rt.extGpioInitialized
    /\ ~rt.completed /\ rt.stepsTaken = 2500 /\ rt.irregular = 0
    /\ rt.overrideRpmValue = 0

\* C19: during find_index the first non-zero index value read on a poll is
\* captured with the position read at that poll (found = true), also when
\* the index register is non-zero already at the first poll.
C19_FirstIndexCaptured ==
    (FindingIndex /\ rt.firstSeen # <<>>) =>
        /\ rt.found
        /\ rt.indexPos = rt.firstSeen[1]
        /\ rt.motorPosAtIndex = rt.firstSeen[2]

\* The index register read non-zero before the loop and reads the same
\* value at the first poll.
C19_Witness ==
    /\ FindingIndex /\ rt.stepsTaken = 1
    /\ rt.firstSeen # <<>> /\ rt.prevIndexPos = rt.firstSeen[1]
    /\ ~rt.found

Transferring == rt.routine \in {"framRead", "framWrite", "send"}

\* C20: every I2C transfer (of a FRAM read or write) and every serial send
\* returns, even if the bus never reports idle or the transmitter never
\* reports done.
C20_TransfersReturn == Transferring ~> ~Transferring

\* A FRAM write waits after its i2cSend on a bus that never reports idle.
C20_Witness ==
    /\ rt.routine = "framWrite" /\ rt.at = "sendWait"
    /\ rt.busyFor = NeverIdle

BootHomingFound == rt.routine = "initByIndex" /\ rt.at = "done" /\ rt.found

StreamFrame(st) == Frame("STREAM", st, "", <<>>)

\* The step is one pass of handleStreaming.
StreamTickStep == ev'.op = "tick" /\ loopCounter_' = loopCounter_ + 1

\* What a tick does to stream st, which sends exactly when due holds
\* before the tick: its frame, its own last emission time, and nothing
\* else of any stream.
StreamTickOf(st, due) ==
    /\ Emitted(StreamFrame(st))' <=> due
    /\ lastStreamTime'[st] = IF due THEN ev'.now ELSE lastStreamTime[st]
    /\ streamEnabled'[st] = streamEnabled[st]
    /\ streamRate'[st] = streamRate[st]

\* C22: on each loop tick each enabled stream (the motor position stream
\* only where the shell has a MotionBoard) sends its frame if and only if
\* now - last_emit >= its interval, and then sets its own last_emit to now;
\* a disabled stream never sends; no stream's enabled flag or interval
\* changes and a stream that does not send keeps its last_emit, whatever
\* the other streams and the AMS block of the same tick do.
C22_StreamTick ==
    [][StreamTickStep =>
         \A st \in Streams :
            StreamTickOf(st, /\ streamEnabled[st]
                             /\ st = "pos" => mBoard_
                             /\ ev'.now - lastStreamTime[st] >= streamRate[st])]_vars

\* A tick in which the AMS block sampled, the output impedance stream sent,
\* the input impedance stream was enabled and not yet due, and the input
\* V/I stream was disabled.
C22_Witness ==
    /\ IsTick /\ ev.wasEnabled /\ ev.sampled
    /\ Emitted(StreamFrame("imp_o")) /\ lastStreamTime["imp_o"] = ev.now
    /\ streamEnabled["imp_i"] /\ ~Emitted(StreamFrame("imp_i"))
    /\ lastStreamTime["imp_i"] < ev.now
    /\ ~streamEnabled["vi_i"] /\ ~Emitted(StreamFrame("vi_i"))

\* C22 as stated: every enabled stream, the motor position stream without
\* a MotionBoard included, sends when its interval has elapsed.
C22_AsStated ==
    [][StreamTickStep =>
         \A st \in Streams :
            StreamTickOf(st, /\ streamEnabled[st]
                             /\ ev'.now - lastStreamTime[st] >= streamRate[st])]_vars

\* The range of a stream interval, in ms.
RateInRange(rate) == rate \in 10..5000

\* The argument list carries a rate at position k that is out of range.
RateRefused(args, k) == Len(args) >= k /\ ~RateInRange(atoi(args[k]))

\* C23: through rrs, rrv, mrp, mss and the load of the stream settings
\* record, every stream interval is within [10, 5000] ms, and so are the
\* rates kept in matcherInfo after start-up; a command whose rate argument
\* is outside the range leaves the interval it names unchanged.
C23_StreamRates ==
    /\ [](\A st \in Streams : RateInRange(streamRate[st]))
    /\ [](pc # "boot" => \A k \in 1..3 : RateInRange(RatesOf(applyStreamSettingsFromBoard(matcherInfo))[k]))
    /\ [][/\ \A args \in RfStreamArgs :
               (ev'.op \in {"rrs", "rrv"} /\ RateRefused(args, 3)
                   /\ (CmdRrs(args) \/ CmdRrv(args)))
                  => streamRate' = streamRate
          /\ \A args \in MrpArgs :
               (ev'.op = "mrp" /\ RateRefused(args, 2) /\ CmdMrp(args))
                  => streamRate' = streamRate
          /\ \A args \in MssArgs, saveOk \in BOOLEAN :
               (ev'.op = "mss" /\ Len(args) >= 3 /\ CmdMss(args, saveOk)) =>
                  /\ RateRefused(args, 1) =>
                        /\ streamRate'["imp_i"] = streamRate["imp_i"]
                        /\ streamRate'["imp_o"] = streamRate["imp_o"]
                  /\ RateRefused(args, 2) =>
                        /\ streamRate'["vi_i"] = streamRate["vi_i"]
                        /\ streamRate'["vi_o"] = streamRate["vi_o"]
                  /\ RateRefused(args, 3) => streamRate'["pos"] = streamRate["pos"]]_vars

\* An mss that was acknowledged and left the rates loaded from FRAM, which
\* only the one with all three rates out of range does.
C23_Witness ==
    /\ ev.op = "mss" /\ ev.path = "ok" /\ Emitted(Ack("mss", "OK"))
    /\ fram.stream = <<20, 100, 5000>>
    /\ RatesOf(streamRate) = <<20, 100, 5000>>

\* C24: when the command loop is left, all five streams are disabled and
\* AMS is reset (not enabled, not Matching); and the first tick after the
\* loop is entered again, no command having been given, sends no stream
\* frame, samples no sensor and commands no motor.
C24_ExitResets ==
    /\ [](ev.op = "exit" =>
            /\ \A st \in Streams : ~streamEnabled[st]
            /\ ~amsEnabled_ /\ ~amsMatching_)
    /\ [][(ev.op = "enter" /\ ev'.op = "tick") =>
            /\ \A st \in Streams : ~Emitted(StreamFrame(st))'
            /\ ~ev'.sampled
            /\ motorCmd' = <<>>]_vars

\* The loop was left while AMS was enabled and Matching and after the
\* output impedance stream had sent: the streams are disabled, AMS is as
\* it was.
C24_Witness ==
    /\ ev.op = "exit"
    /\ lastStreamTime["imp_o"] > 0
    /\ \A st \in Streams : ~streamEnabled[st]
    /\ amsEnabled_ /\ amsMatching_

\* C25: after loadAmsSettings the interval is in [1, 1000], the timeout in
\* [0, 60000] and the log interval in [1, 1000]; after start-up the VSWR
\* thresholds and the stream rates are each in their range and every
\* motor's limits are ordered, whatever FRAM held and whether or not the
\* reads succeeded.
C25_LoadsValidate ==
    /\ ev.op = "loadAms" =>
          /\ matcherInfo.amsInterval \in 1..1000
          /\ matcherInfo.amsTimeout \in 0..60000
          /\ matcherInfo.amsLogInterval \in 1..1000
    /\ (pc # "boot" /\ mBoard_) =>
          /\ matcherInfo.vswrStart \in 1000..10000
          /\ matcherInfo.vswrStop \in 1000..5000
          /\ matcherInfo.vswrRestart \in 1000..10000
          /\ \A k \in 1..3 : RateInRange(RatesOf(applyStreamSettingsFromBoard(matcherInfo))[k])
          /\ \A i \in Motors :
                /\ M[i].minValue <= M[i].lowerLimit
                /\ M[i].lowerLimit <= M[i].upperLimit
                /\ M[i].upperLimit <= M[i].maxValue

\* loadAmsSettings read a record with every word above its range and
\* stored the three defaults.
C25_Witness ==
    /\ ev.op = "loadAms" /\ ev.path = "read"
    /\ fram.ams = <<0, 70000, 2000>>
    /\ matcherInfo.amsInterval = 10 /\ matcherInfo.amsTimeout = 0
    /\ matcherInfo.amsLogInterval = 10
    /\ Emitted(Frame("AST", "", "", <<10, 0, 10>>))

\* loadAmsSettings read a record with a negative timeout and stored it.
C25_NegativeTimeout ==
    /\ ev.op = "loadAms" /\ ev.path = "read"
    /\ fram.ams = <<20, -5, 5>>
    /\ matcherInfo.amsTimeout = -5

\* The loads apart from the two that do not check: the timeout of
\* loadAmsSettings and the records of loadMotorLimits.
C25_CheckedFields ==
    /\ ev.op = "loadAms" =>
          /\ matcherInfo.amsInterval \in 1..1000
          /\ matcherInfo.amsLogInterval \in 1..1000
          /\ matcherInfo.amsTimeout <= 60000
    /\ (pc # "boot" /\ mBoard_) =>
          /\ matcherInfo.vswrStart \in 1000..10000
          /\ matcherInfo.vswrStop \in 1000..5000
          /\ matcherInfo.vswrRestart \in 1000..10000
          /\ \A k \in 1..3 : RateInRange(RatesOf(applyStreamSettingsFromBoard(matcherInfo))[k])

\* The address range of a record.
RecordRange(r) == RecordAddr(r)..(RecordAddr(r) + RecordSize(r) - 1)

\* The last step was load h.
Loaded(h) == rt.routine = "fram" /\ rt.op = "load" /\ rt.handler = h

\* The bytes that load h reads if each of its records holds what it was
\* last saved with.
RECURSIVE SavedBytes(_)
SavedBytes(parts) ==
    IF parts = <<>> THEN <<>>
    ELSE PartBytes(RecordBytes(Head(parts).rec, rt.written[Head(parts).rec]), Head(parts))
         \o SavedBytes(Tail(parts))

\* C26: the address ranges of the twelve records are pairwise disjoint and
\* inside the store; and a load of records that were saved reads, byte for
\* byte, what each was last saved with, whichever other records were saved
\* in between.
C26_WriteThenRead ==
    /\ \A r1, r2 \in Records : r1 # r2 => RecordRange(r1) \cap RecordRange(r2) = {}
    /\ \A h \in Loads :
         (Loaded(h) /\ \A r \in PartRecords(LoadParts(h)) : rt.written[r] # -1)
            => rt.data = SavedBytes(LoadParts(h))

\* The motor limits were saved, then the record that follows them in the
\* store, and the load of the motor limits read the 32 bytes saved.
C26_Witness ==
    /\ Loaded("loadMotorLimits")
    /\ rt.saves = 2
    /\ rt.written["motor_limits"] = 0 /\ rt.written["stream_settings"] = 0
    /\ fram[RecordAddr("stream_settings")] = RecordBytes("stream_settings", 0)[1]
    /\ rt.data = RecordBytes("motor_limits", 0)
    /\ Len(rt.data) = 32

\* C27: every framWrite of a save, of dfr and of dfw carries at most 32
\* payload bytes.
C27_ChunkedWrites ==
    rt.routine = "fram" => \A k \in 1..Len(rt.lengths) : rt.lengths[k] <= CHUNK_SIZE

\* The 32 bytes of the motor limits were saved in two writes of 16.
C27_Witness ==
    /\ rt.routine = "fram" /\ rt.op = "save" /\ rt.handler = "saveMotorLimits"
    /\ rt.lengths = <<16, 16>>
    /\ framRead(fram, RecordAddr("motor_limits"), 32) = RecordBytes("motor_limits", 0)

\* The 128 bytes of the first index positions were saved in one write.
C27_OneWriteOf128 ==
    /\ rt.routine = "fram" /\ rt.op = "save" /\ rt.handler = "saveFirstIndexPos"
    /\ rt.lengths = <<128>>

\* All saves but those of the first index positions, and dfr and dfw with
\* the payload one token holds, keep to 32 bytes a write.
C27_OtherWrites ==
    (rt.routine = "fram" /\ rt.handler \notin {"saveFirstIndexPos", "saveMatcherInfo"})
       => \A k \in 1..Len(rt.lengths) : rt.lengths[k] <= CHUNK_SIZE

\* ------------------------------------------------------------------------
\* C28: calibration and motor records saved back on edit
\* ------------------------------------------------------------------------

\* The persisted calibration of sensor s, its mirror in matcherInfo and the
\* calibration the sensor uses are the same.
CalSavedBack(s) ==
    /\ matcherInfo[CalField(s)] = fram[CalField(s)]
    /\ cal_[s] = SensorCal(fram[CalField(s)])

\* The persisted limits of motor i, their mirror and the motor's limits
\* are the same.
LimitsSavedBack(i) ==
    /\ matcherInfo.motorLimits[i] = fram.motorLimits[i]
    /\ WithLimits(M[i], fram.motorLimits[i]) = M[i]

\* A shell command that edits a calibration or the limits has just ended
\* and, where it saves, its save succeeded.
EditEnded ==
    /\ pc = "stream" /\ mBoard_
    /\ \/ ev.op = "rsc" /\ ev.path = "saved"
       \/ ev.op = "rr" /\ ev.path = "ok"
       \/ ev.op = "msl" /\ ev.path = "ok"

\* C28 as stated: after a shell command that changes a sensor's active
\* calibration (rsc, and the rr reset) or a motor's limits (msl), the
\* persisted record and its mirror equal the value in use.
C28_SavedBackOnEdit ==
    EditEnded => (\A s \in Sensors : CalSavedBack(s)) /\ (\A i \in Motors : LimitsSavedBack(i))

\* C28, the reset: rr has reset the input sensor to gains 1.0 and phase 0
\* while FRAM and the mirror keep the calibration 1.25 that rsc saved.
C28_Witness ==
    /\ pc = "stream" /\ mBoard_ /\ ev.op = "rr" /\ ev.path = "ok"
    /\ cal_["i"] = resetSettings
    /\ fram.inputCal[1] = 1250 /\ matcherInfo.inputCal[1] = 1250

\* The mirror of sensor s holds the calibration the sensor uses.
CalMirrored(s) == cal_[s] = SensorCal(matcherInfo[CalField(s)])

\* C28, rsc and msl alone: an rsc whose save succeeded, entered with every
\* mirror holding what its sensor uses, ends with the persisted record,
\* the mirror and the value in use the same; so does an msl whose save
\* succeeded.
C28_RscMslSaveBack ==
    /\ [](pc = "stream" /\ mBoard_ /\ ev.op = "msl" /\ ev.path = "ok"
            => \A i \in Motors : LimitsSavedBack(i))
    /\ [][(ev'.op = "rsc" /\ ev'.path = "saved" /\ \A s \in Sensors : CalMirrored(s))
            => \A s \in Sensors : CalSavedBack(s)']_vars

\* C28, the reload: whenever the start-up has read both calibration
\* records it leaves the sensors with what FRAM holds.
C28_ReloadReproduces ==
    (pc = "shell" /\ ev.op = "boot" /\ mBoard_
        /\ tx[1] = Frame("RGC", "i", "", fram.inputCal)
        /\ tx[2] = Frame("RGC", "o", "", fram.outputCal))
    => \A s \in Sensors : cal_[s] = SensorCal(fram[CalField(s)])

\* C28, the example: rsc i v 1.25 was saved, and rgc i reports 1.25.
C28_RgcAfterRsc ==
    /\ ev.op = "rgc" /\ tx = <<Frame("RGC", "i", "", <<1250, 1000, 0>>)>>
    /\ fram.inputCal = <<1250, 1000, 0>>

\* C28, the reload: after a restart the start-up has brought back the
\* voltage gain 1.25 that rsc saved.
C28_ReloadAfterRsc ==
    /\ pc = "shell" /\ ev.op = "boot" /\ mBoard_
    /\ cal_["i"].voltageGain = 1250

\* ------------------------------------------------------------------------
\* C29: every command line is answered
\* ------------------------------------------------------------------------

\* The last step was a command line of the host.
CommandEnded == pc = "stream" /\ ev.op \in ShellOps

\* The step sent a protocol frame: a result frame or an acknowledgement.
Answered == \E k \in 1..Len(tx) : tx[k].op # "TEXT"

\* The step sent ACK,<op>,... for its own opcode.
Acknowledged == \E k \in 1..Len(tx) : tx[k].op = "ACK" /\ tx[k].a = ev.op

\* How a command ends that the host's input made fail: too few arguments,
\* a motor index that is not 0 or 1, a malformed argument, an opcode that
\* no handler takes.
RefusedPaths == {"usage", "invalid", "format", "unknown"}

\* C29 as stated: every command line produces a result frame or an
\* acknowledgement, and every command the host's input made fail produces
\* ACK,<op>,<reason>.
C29_EveryCommandAnswers ==
    CommandEnded => Answered /\ (ev.path \in RefusedPaths => Acknowledged)

\* C29, the unknown opcode: the line xyz ends with two lines of free text
\* and no frame.
C29_Witness ==
    /\ CommandEnded /\ ev.op = "xyz" /\ ev.path = "unknown"
    /\ tx[1] = Text("Unknown command: xyz")
    /\ ~Answered

\* C29, the other cases: mr 5 5000 (no such motor) ends with free text
\* only.
C29_InvalidIndexText ==
    /\ CommandEnded /\ ev.op = "mr" /\ ev.path = "invalid"
    /\ tx = <<Text("Invalid motor index (0 or 1)")>>

\* C29, the other cases: mr 0 5000 is carried out and sends nothing.
C29_SilentRun ==
    CommandEnded /\ ev.op = "mr" /\ ev.path = "run" /\ tx = <<>> /\ Len(motorCmd) > 0

\* C29, what holds: the commands ams, agv, rrs, rsc, rgc, mf and msl,
\* when their arguments are taken and the board is there, and asv with
\* three arguments, end with a frame; all of these but rgc with an
\* acknowledgement of their opcode.
C29_TakenCommandsAnswer ==
    (CommandEnded /\ mBoard_ /\ ev.path \notin RefusedPaths
        /\ ev.op \in {"ams", "asv", "agv", "rrs", "rsc", "rgc", "mf", "msl"})
    => Answered /\ (ev.op # "rgc" => Acknowledged)

\* ------------------------------------------------------------------------
\* C30: the dispatch of ass and ags
\* ------------------------------------------------------------------------

\* C30 as stated: with the board there, ags answers with the frame
\* AST,<interval>,<timeout>,<logInterval>,EN and an acknowledgement, and
\* ass 30 0 5 stores the settings and acknowledges.
C30_AssAgsDispatched ==
    (CommandEnded /\ mBoard_) =>
        /\ ev.op = "ags" =>
              tx = <<Frame("AST", "", "", <<matcherInfo.amsInterval, matcherInfo.amsTimeout,
                                            matcherInfo.amsLogInterval>>),
                     Ack("ags", "OK")>>
        /\ ev.op = "ass" =>
              /\ Acknowledged
              /\ matcherInfo.amsInterval = 30 /\ matcherInfo.amsTimeout = 0
              /\ matcherInfo.amsLogInterval = 5

\* C30, the refusal: ass 30 0 5 ends as an unknown command, and the
\* settings are not stored.
C30_Witness ==
    /\ CommandEnded /\ mBoard_ /\ ev.op = "ass" /\ ev.path = "unknown"
    /\ tx[1] = Text("Unknown command: ass")
    /\ matcherInfo.amsInterval # 30 /\ fram.ams # <<30, 0, 5>>

\* C30, the refusal of ags: it ends as an unknown command.
C30_AgsUnknown ==
    /\ CommandEnded /\ mBoard_ /\ ev.op = "ags" /\ ev.path = "unknown"
    /\ tx[1] = Text("Unknown command: ags")

\* C30, asv and agv: with the board there, agv answers with the frame
\* VSW,<start>,<stop>,<restart>,EN and an acknowledgement, and asv with
\* three thresholds stores them and acknowledges.
C30_AsvAgvDispatched ==
    (CommandEnded /\ mBoard_) =>
        /\ ev.op = "agv" =>
              tx = <<Frame("VSW", "", "", <<matcherInfo.vswrStart, matcherInfo.vswrStop,
                                            matcherInfo.vswrRestart>>),
                     Ack("agv", "OK")>>
        /\ (ev.op = "asv" /\ ev.path # "usage") =>
              /\ Acknowledged
              /\ matcherInfo.vswrStart = 1100 /\ matcherInfo.vswrStop = 1050
              /\ matcherInfo.vswrRestart = 1100

\* ------------------------------------------------------------------------
\* C31: the hex arguments of dfw and dfr
\* ------------------------------------------------------------------------

\* The last line was a dfw or dfr that wrote.
HexWritten == rt.routine = "hex" /\ ev.path = "ok"

\* The address the last line was to write from.
HexTarget == IF rt.op = "dfw" THEN AddressDenoted(rt.typed[1], 0) ELSE 0

\* C31 as stated: after dfw <addr> <hex> the store holds, from the address
\* addr denotes, the bytes hex denotes; after dfr <len> <hex> it holds them
\* from address 0; and the dump of dfb sent back with dfr leaves the store
\* as it was.
C31_HexWritten ==
    /\ [](HexWritten =>
            \A i \in 1..(Len(rt.typed[2]) \div 2) :
                fram[HexTarget + i - 1] = BytesDenoted(rt.typed[2])[i])
    /\ [][(rt'.routine = "hex" /\ rt'.op = "dfr"
             /\ rt'.typed[2] = DfbHex(fram, 0, MinDumpBytes)) => fram' = fram]_vars

\* C31, the small letter: dfw 0000 1a has stored 0x3A, not 0x1A.
C31_Witness ==
    /\ HexWritten /\ rt.op = "dfw"
    /\ rt.typed = << <<"0", "0", "0", "0">>, <<"1", "a">> >>
    /\ fram[0] = 58

\* C31, the capital letter: dfw 0000 4D has stored 0x6D, not 0x4D.
C31_CapitalDigit ==
    /\ HexWritten /\ rt.op = "dfw"
    /\ rt.typed = << <<"0", "0", "0", "0">>, <<"4", "D">> >>
    /\ fram[0] = 109

\* C31, the address: dfw 000A 12 has written to address 42, not 10.
C31_AddressDigit ==
    /\ HexWritten /\ rt.op = "dfw"
    /\ rt.typed = << <<"0", "0", "0", "A">>, <<"1", "2">> >>
    /\ fram[42] = 18 /\ fram[10] # 18

\* C31, the dump sent back: the model name's byte 0x0C at address 3 has
\* come back as 0x2C.
C31_DumpNotRestored ==
    /\ HexWritten /\ rt.op = "dfr" /\ Len(rt.typed[2]) = 2 * MinDumpBytes
    /\ rt.typed[2][7] = "0" /\ rt.typed[2][8] = "C"
    /\ fram[3] = 44

\* The characters of tok are decimal digits.
OnlyDecimal(tok) == \A k \in 1..Len(tok) : PlaceIn(DecimalChars, tok[k]) > 0

\* C31, what holds: an address and data typed with the digits 0-9 only are
\* written as they denote.
C31_DecimalDigitsWritten ==
    (HexWritten /\ OnlyDecimal(rt.typed[2]) /\ (rt.op = "dfw" => OnlyDecimal(rt.typed[1])))
    => \A i \in 1..(Len(rt.typed[2]) \div 2) :
           fram[HexTarget + i - 1] = BytesDenoted(rt.typed[2])[i]

\* ------------------------------------------------------------------------
\* C32: a negative discriminant
\* ------------------------------------------------------------------------

\* Goals with both solutions invalid and the four capacitances zero.
ZeroGoals(goals) ==
    /\ ~goals.valid0 /\ ~goals.valid1
    /\ goals.VVC0Goal0 = 0 /\ goals.VVC0Goal1 = 0
    /\ goals.VVC1Goal0 = 0 /\ goals.VVC1Goal1 = 0

ZeroSteps(goals) ==
    /\ goals.step0Goal0 = 0 /\ goals.step0Goal1 = 0
    /\ goals.step1Goal0 = 0 /\ goals.step1Goal1 = 0

CalibratedRoundTrip ==
    /\ ev.op = "getPositionFromCap" /\ ev.back
    /\ isFittingCalibrated(M[ev.motor])
    /\ ev.pos >= M[ev.motor].lowerLimit /\ ev.pos <= M[ev.motor].upperLimit

\* The motor of the example: coefficients (0, 100, 0, 0) over 0..64000.
ExampleMotor == FitMotor(<<0, 100, 0, 0>>, WholeRange, DefaultCaps)

WithinOne(a, b) == a - b <= 1 /\ b - a <= 1

C33_ThreeStepsOff ==
    /\ CalibratedRoundTrip /\ M[ev.motor] = ExampleMotor
    /\ ev.pos = 16003 /\ ev.cap = 2500 /\ ev.step = 16000

\* C33: a step within 0.1 pF of the middle of the limits came back as the
\* middle, 30 steps away, after one pass.
C33_InitialGuessKept ==
    /\ CalibratedRoundTrip /\ M[ev.motor] = ExampleMotor
    /\ ev.pos = 32030 /\ ev.step = 32000 /\ ev.passes = 1

\* C33: a target no step reaches used all 20 passes and came back as the
\* upper limit.
C33_AllPasses ==
    /\ ev.op = "getPositionFromCap" /\ isFittingCalibrated(M[ev.motor])
    /\ ev.cap = 150000 /\ ev.passes = maxIterations /\ ev.step = M[ev.motor].upperLimit

\* ------------------------------------------------------------------------
\* C34: the uncalibrated conversions
\* ------------------------------------------------------------------------

\* A conversion on a motor whose fit coefficients are all zero and whose
\* maxValue is above its minValue.
Uncalibrated(op) ==
    /\ ev.op = op
    /\ ~isFittingCalibrated(M[ev.motor])
    /\ M[ev.motor].maxValue > M[ev.motor].minValue

\* C34: with all-zero fit coefficients and max > min, the capacitance at
\* min is min_cap and at max is max_cap exactly, the capacitance of every
\* step, also outside [min, max], lies between min_cap and max_cap, and the
\* linear inverse returns a step within [min, max] for every target.
C34_LinearConversions ==
    /\ Uncalibrated("getCapacitanceAt") =>
          /\ ev.pos = M[ev.motor].minValue => ev.cap = M[ev.motor].minCap
          /\ ev.pos = M[ev.motor].maxValue => ev.cap = M[ev.motor].maxCap
          /\ ev.cap >= M[ev.motor].minCap /\ ev.cap <= M[ev.motor].maxCap
    /\ Uncalibrated("getPositionFromCap") =>
          /\ ev.step >= M[ev.motor].minValue /\ ev.step <= M[ev.motor].maxValue

\* C34: a step below the range of a motor with caps 5.00..500.00 pF got
\* min_cap.
C34_Witness ==
    /\ Uncalibrated("getCapacitanceAt")
    /\ M[ev.motor].minValue = 100 /\ M[ev.motor].minCap = 500
    /\ ev.pos = -100 /\ ev.cap = 500

\* C34: the ends of the range got min_cap and max_cap.
C34_EndsExact ==
    /\ Uncalibrated("getCapacitanceAt")
    /\ M[ev.motor].minValue = 100 /\ M[ev.motor].maxCap = 50000
    /\ ev.pos = 64000 /\ ev.cap = 50000

\* C34: a target above max_cap came back as maxValue, one below min_cap
\* as minValue.
C34_InverseClamped ==
    /\ Uncalibrated("getPositionFromCap")
    /\ \/ ev.cap = 150000 /\ ev.step = M[ev.motor].maxValue
       \/ ev.cap = -500 /\ ev.step = M[ev.motor].minValue /\ M[ev.motor].minValue = 100

\* ------------------------------------------------------------------------
\* C35: the serial interrupt against the main loop
\* ------------------------------------------------------------------------

\* The lines the host has sent: the bytes before each CR, after the CR
\* before it, without the LFs.
LinesSent(sent) ==
    LET ends == {k \in 1..Len(sent) : sent[k] = CR}
        endOf(n) == CHOOSE k \in ends : Cardinality({j \in ends : j <= k}) = n
        startOf(n) == IF n = 1 THEN 1 ELSE endOf(n - 1) + 1
    IN  [n \in 1..Cardinality(ends) |->
            SelectSeq(SubSeq(sent, startOf(n), endOf(n) - 1), LAMBDA c : c # LF)]

\* A line as the command of processCommand: its first 255 bytes.
CommandOf(line) ==
    IF Len(line) < CmdBufferSize THEN line ELSE SubSeq(line, 1, CmdBufferSize - 1)

CommandsSent(sent) == [n \in 1..Len(LinesSent(sent)) |-> CommandOf(LinesSent(sent)[n])]

\* The commands processed so far are the first of the lines sent, each as
\* its own command.
ProcessedAsSent(st) ==
    /\ Len(st.processed) <= Len(CommandsSent(st.sent))
    /\ \A n \in 1..Len(st.processed) : st.processed[n] = CommandsSent(st.sent)[n]

\* The main loop is polling and no command is pending.
SerialQuiet == rt.routine = "serial" /\ rt.at = "poll" /\ ~rt.Recv_Complete

\* C35 as stated: whenever the handler runs, every CR-terminated line is
\* processed exactly once as its own command, no byte of a following line
\* is appended to the command in progress or lost by the reset, and the
\* receive index never exceeds the buffer size.
C35_EveryLineOnce ==
    rt.routine = "serial" =>
        /\ ProcessedAsSent(rt)
        /\ SerialQuiet => rt.processed = CommandsSent(rt.sent)
        /\ rt.bUart0_BufIndex <= UART_RX_BUF_SIZE

\* C35: the host sent a, CR, b, CR; the main loop is polling again with no
\* command pending and has processed the one command a: the line b was
\* wiped by the reset.
C35_Witness ==
    /\ SerialQuiet
    /\ rt.sent = <<"a", CR, "b", CR>>
    /\ rt.processed = <<(<<"a">>)>>
    /\ rt.Rx_buf = <<>> /\ rt.bUart0_BufIndex = 0

\* C35: the byte b of the following line was appended to the command a.
C35_LinesMerged ==
    /\ rt.routine = "serial"
    /\ Len(rt.sent) >= 3 /\ SubSeq(rt.sent, 1, 3) = <<"a", CR, "b">>
    /\ rt.processed # <<>> /\ rt.processed[1] = <<"a", "b">>

\* C35: a byte stored between the reset of the index and the wipe of the
\* buffer left the index at 1 over a wiped buffer, and the line after it
\* was processed as an empty command.
C35_WipedUnderIndex ==
    /\ rt.routine = "serial"
    /\ rt.sent = <<"a", CR, "b", "b", CR>>
    /\ rt.processed = <<(<<"a">>), <<>>>>

\* C35: the receive index stays below the size of Rx_buf, and nothing is
\* stored at or after its last byte.
C35_IndexBounded ==
    rt.routine = "serial" =>
        /\ rt.bUart0_BufIndex <= UART_RX_BUF_SIZE - 1
        /\ Len(rt.Rx_buf) <= UART_RX_BUF_SIZE - 1

\* C35: the index reached its bound and a further byte was dropped.
C35_BufferFull ==
    /\ rt.routine = "serial"
    /\ rt.bUart0_BufIndex = UART_RX_BUF_SIZE - 1
    /\ Len(rt.sent) > UART_RX_BUF_SIZE

\* C35: as long as no byte but LF arrives while a command is pending or in
\* progress, every line is processed once as its own command.
C35_PacedHost ==
    (rt.routine = "serial" /\ ~rt.overlapped) =>
        /\ ProcessedAsSent(rt)
        /\ SerialQuiet => rt.processed = CommandsSent(rt.sent)

\* C35: two lines sent with CR LF, each after the one before was done with,
\* were processed as two commands.
C35_PacedTwoLines ==
    /\ SerialQuiet /\ ~rt.overlapped
    /\ rt.sent = <<"a", CR, LF, "b", CR>>
    /\ rt.processed = <<(<<"a">>), <<"b">>>>

\* ------------------------------------------------------------------------
\* C36: an AMS tick whose input sample is the zeroed one
\* ------------------------------------------------------------------------

\* The tick read the sensors and got the zeroed input sample: of the
\* samples the input sensor returns here, only that one has the capped VSWR.
ZeroSampleTick == ev.op = "tick" /\ ev.sampled /\ ev.vswr = VswrCap

\* C36: the zeroed sample of a hold timeout (R = X = 0) is evaluated as
\* VSWR = 999; with it a tick in Matching never switches to Monitoring and
\* goes on to the goals (moving the motors when a goal is selected), and a
\* tick in Monitoring always switches to Matching.  The thresholds are those
\* loadVswrSettings accepts or asv was given, all below 999.
C36_HoldTimeoutTick ==
    /\ calculateVSWR(ZeroSample[1], ZeroSample[2]) = VswrCap
    /\ \A s \in HoldSamples \ {ZeroSample} : calculateVSWR(s[1], s[2]) # VswrCap
    /\ ZeroSampleTick =>
          /\ amsMatching_ /\ amsEnabled_
          /\ ev.wasMatching => ev.path \in {"run", "nogoal"}
          /\ ev.path = "run" => motorCmd # <<>>
          /\ ~ev.wasMatching => ev.path = "restart"

\* C36: a tick in Matching got the zeroed sample, computed goals from it
\* and moved the motors.
C36_Witness ==
    /\ ZeroSampleTick /\ ev.wasMatching /\ ev.path = "run"
    /\ ev.selectedGoal = 0 /\ motorCmd # <<>>

\* C36: a tick in Monitoring got the zeroed sample and switched to Matching.
C36_MonitoringRestarts ==
    /\ ZeroSampleTick /\ ~ev.wasMatching /\ ev.path = "restart" /\ amsMatching_

\* C36: a tick in Matching got the zeroed sample and found no goal.
C36_NoGoalFromZeroSample ==
    /\ ZeroSampleTick /\ ev.wasMatching /\ ev.path = "nogoal" /\ motorCmd = <<>>

\* ------------------------------------------------------------------------
\* C37: streams of a sensor that is not there
\* ------------------------------------------------------------------------

\* C37 as stated: no sequence of rrs and rrv, whatever the sensor word,
\* leads to a tick that samples a missing sensor: no tick sends the frame of
\* a stream whose sensor is missing, and none faults.
C37_NoMissingSensorSampled ==
    /\ pc # "fault"
    /\ ev.op = "tick" => \A st \in Streams : Emitted(StreamFrame(st)) => SensorWired(st)

\* C37: without an input sensor, rrs i run 10 was acknowledged and the
\* next tick sent the input impedance stream's frame.
C37_Witness ==
    /\ ~iSensor_ /\ ev.op = "tick" /\ ev.path # "fault"
    /\ streamEnabled["imp_i"] /\ Emitted(StreamFrame("imp_i"))

\* C37: without an output sensor, a sensor word that is neither i nor o
\* enabled the output V/I stream, and the tick that sampled for it stopped
\* the firmware.
C37_OtherWordFaults ==
    /\ ~oSensor_ /\ pc = "fault" /\ streamEnabled["vi_o"] /\ ~streamEnabled["imp_o"]

\* C37: rrs and rrv enable a stream whether or not its sensor is there.
C37_EnabledUnwired ==
    /\ ev.op = "rrs" /\ ev.path = "run" /\ ~iSensor_ /\ streamEnabled["imp_i"]
    /\ tx = <<Ack("rrs", "RUN")>>

\* C37: with both sensors every stream that sends has its sensor, and no
\* tick faults.
C37_BothSensorsWired ==
    (iSensor_ /\ oSensor_) =>
        /\ pc # "fault"
        /\ ev.op = "tick" => \A st \in Streams : Emitted(StreamFrame(st)) => SensorWired(st)

\* C37: with both sensors a tick sent the frames of two streams.
C37_BothStreamsSent ==
    /\ iSensor_ /\ oSensor_ /\ ev.op = "tick"
    /\ Emitted(StreamFrame("imp_i")) /\ Emitted(StreamFrame("vi_o"))

\* ------------------------------------------------------------------------
\* C38: the averaging window
\* ------------------------------------------------------------------------

\* clamp(x, lo, hi)
Clamped(x, lo, hi) == IF x < lo THEN lo ELSE IF x > hi THEN hi ELSE x

\* The k entries immediately before write_index in circular order.
WindowBefore(write_index, k) ==
    [j \in 1..k |-> (write_index - k + (j - 1) + kFftLength) % kFftLength]

\* The loop read exactly the k entries before the write index of each
\* buffer, all at addresses in [0, N).
ReadsWindow(k) ==
    /\ rt.avgCount = k
    /\ rt.addr_v = WindowBefore(rt.hold_index_v, k)
    /\ rt.addr_i = WindowBefore(rt.hold_index_i, k)
    /\ \A j \in 1..k : /\ rt.addr_v[j] >= 0 /\ rt.addr_v[j] < kFftLength
                       /\ rt.addr_i[j] >= 0 /\ rt.addr_i[j] < kFftLength

\* C38 as stated: for every avg_count, negative ones included, and every
\* write index in [0, N) the loop reads exactly k = clamp(avg_count, 1, N)
\* entries, at (write_index - k + j + N) mod N for j in [0, k).
C38_WindowOfArgument ==
    rt.routine = "window" => ReadsWindow(Clamped(rt.avgCountArg, 1, kFftLength))

\* C38: for every avg_count other than -1 and every write index in [0, N)
\* the loop reads exactly k = clamp(avg_count, 1, N) entries, at
\* (write_index - k + j + N) mod N for j in [0, k), all within [0, N);
\* avg_count = -1 stands for the sensor's configured count avgCount_, and k
\* is then clamp(avgCount_, 1, N).
C38_AveragingWindow ==
    rt.routine = "window" =>
        ReadsWindow(Clamped(IF rt.avgCountArg = -1 THEN rt.avgCount_ ELSE rt.avgCountArg,
                            1, kFftLength))

\* C38: a count of N + 1 with the write index at 2 read the N entries from
\* 2 round to 1.
C38_Witness ==
    /\ rt.routine = "window" /\ rt.avgCountArg = kFftLength + 1 /\ rt.hold_index_v = 2
    /\ Len(rt.addr_v) = kFftLength
    /\ rt.addr_v[1] = 2 /\ rt.addr_v[kFftLength - 2] = kFftLength - 1
    /\ rt.addr_v[kFftLength - 1] = 0 /\ rt.addr_v[kFftLength] = 1

\* C38: a count of -1 on a sensor configured for 512 read 512 entries.
C38_DefaultCount ==
    /\ rt.routine = "window" /\ rt.avgCountArg = -1 /\ rt.avgCount_ = 512
    /\ Len(rt.addr_v) = 512 /\ rt.hold_index_v = 0
    /\ rt.addr_v[1] = 512 /\ rt.addr_v[512] = kFftLength - 1

\* C38: counts of 0 and -7 read the one entry before the write index.
C38_SingleEntry ==
    /\ rt.routine = "window" /\ rt.avgCountArg \in {0, -7} /\ rt.hold_index_v = 0
    /\ rt.addr_v = <<kFftLength - 1>>

\* ------------------------------------------------------------------------
\* C39: the origin register's write sequences
\* ------------------------------------------------------------------------

\* A call of the function with the given trigger bit has returned.
OriginReturned(trigger) ==
    rt.routine = "origin" /\ rt.at = "idle" /\ rt.result # "" /\ rt.trigger = trigger

\* p << 2 as a 32-bit word, from the bits of p: the low 30 bits of p in
\* bits 31..2.
Shifted(p) ==
    IF p % (2^30) >= 2^29 THEN (-4) * (2^30 - (p % (2^30))) ELSE 4 * (p % (2^30))

\* The values written to the origin register, in order.
RECURSIVE OriginValues(_)
OriginValues(writes) ==
    IF writes = <<>> THEN <<>>
    ELSE IF Head(writes)[1] = "SET_ORIGIN" THEN <<Head(writes)[2]>> \o OriginValues(Tail(writes))
    ELSE OriginValues(Tail(writes))

\* The number of changes of bit 0 from `from` to `to` along the values the
\* origin register takes, starting from the value before the call.
RECURSIVE Edges(_, _, _)
Edges(values, from, to) ==
    IF Len(values) < 2 THEN 0
    ELSE (IF Bit0(values[1]) = from /\ Bit0(values[2]) = to THEN 1 ELSE 0)
         + Edges(Tail(values), from, to)

\* C39, set_origin: a successful call wrote p to the target register and
\* then (p<<2), (p<<2)|1, (p<<2) to the origin register.
C39_SetOriginWrites ==
    OriginReturned(1) /\ rt.result = "XST_SUCCESS" =>
        /\ rt.writes = <<<<"TAR_POS", rt.position>>,
                         <<"SET_ORIGIN", Shifted(rt.position)>>,
                         <<"SET_ORIGIN", Shifted(rt.position) + 1>>,
                         <<"SET_ORIGIN", Shifted(rt.position)>>>>
        /\ tarPosReg[rt.motor] = rt.position
        /\ originReg[rt.motor] = Shifted(rt.position)

\* C39, set_origin: bit 0 of the origin register rises once and falls once
\* over the call, and no value written has bit 1 set.
C39_SetOriginEdges ==
    OriginReturned(1) /\ rt.result = "XST_SUCCESS" =>
        /\ Edges(<<rt.originBefore>> \o OriginValues(rt.writes), 0, 1) = 1
        /\ Edges(<<rt.originBefore>> \o OriginValues(rt.writes), 1, 0) = 1
        /\ \A k \in 1..Len(rt.writes) :
              rt.writes[k][1] = "SET_ORIGIN" => Bit1(rt.writes[k][2]) = 0

\* C39, set_origin_on_index: a successful call wrote (p<<2), (p<<2)|2,
\* (p<<2) to the origin register, no value with bit 0 set, and left the
\* target register as it was.
C39_OnIndexWrites ==
    OriginReturned(2) /\ rt.result = "XST_SUCCESS" =>
        /\ rt.writes = <<<<"SET_ORIGIN", Shifted(rt.position)>>,
                         <<"SET_ORIGIN", Shifted(rt.position) + 2>>,
                         <<"SET_ORIGIN", Shifted(rt.position)>>>>
        /\ \A k \in 1..Len(rt.writes) : Bit0(rt.writes[k][2]) = 0
        /\ tarPosReg[rt.motor] = rt.tarPosBefore
        /\ originReg[rt.motor] = Shifted(rt.position)

\* C39: with the GPIO not initialised both functions fail and write no
\* register; with it initialised they succeed.
C39_NoWriteUninitialised ==
    rt.routine = "origin" /\ rt.at = "idle" /\ rt.result # "" =>
        IF M[rt.motor].gpioInitialized
        THEN rt.result = "XST_SUCCESS"
        ELSE /\ rt.result = "XST_FAILURE"
             /\ rt.writes = <<>>
             /\ tarPosReg[rt.motor] = rt.tarPosBefore
             /\ originReg[rt.motor] = rt.originBefore

\* C39: while a call is under way on a motor whose GPIO is not
\* initialised, and at every other step, the registers change only by the
\* writes recorded.
C39_OnlyRecordedWrites ==
    [][(tarPosReg' # tarPosReg \/ originReg' # originReg) =>
          /\ rt'.routine = "origin" /\ M[rt.motor].gpioInitialized
          /\ Len(rt'.writes) = Len(rt.writes) + 1]_vars

\* C39: set_origin(p) writes p to the target register and then (p<<2),
\* (p<<2)|1, (p<<2) to the origin register, one rising and one falling edge
\* on bit 0 with bit 1 never set; set_origin_on_index(p) writes (p<<2),
\* (p<<2)|2, (p<<2), bit 0 never set, and leaves the target register
\* unchanged; both fail without a register write when the GPIO is not
\* initialised.
C39_OriginSequences ==
    /\ C39_SetOriginWrites
    /\ C39_SetOriginEdges
    /\ C39_OnIndexWrites
    /\ C39_NoWriteUninitialised

\* C39: set_origin(3) returned after writing 3, 12, 13, 12.
C39_Witness ==
    /\ OriginReturned(1) /\ rt.position = 3 /\ rt.result = "XST_SUCCESS"
    /\ rt.writes = <<<<"TAR_POS", 3>>, <<"SET_ORIGIN", 12>>, <<"SET_ORIGIN", 13>>,
                     <<"SET_ORIGIN", 12>>>>

\* C39: set_origin_on_index(640) returned after writing 2560, 2562, 2560
\* with the target register still at its earlier value.
C39_OnIndexArmed ==
    /\ OriginReturned(2) /\ rt.position = 640 /\ rt.result = "XST_SUCCESS"
    /\ rt.writes = <<<<"SET_ORIGIN", 2560>>, <<"SET_ORIGIN", 2562>>, <<"SET_ORIGIN", 2560>>>>
    /\ tarPosReg[rt.motor] = IndexSearchTarget

\* C39: a call on a motor whose GPIO is not initialised returned
\* XST_FAILURE.
C39_FailedCall ==
    /\ rt.routine = "origin" /\ rt.at = "idle" /\ rt.result = "XST_FAILURE"
    /\ ~M[rt.motor].gpioInitialized /\ rt.position = 3

\* C39: set_origin(-1) wrote the words 0xFFFFFFFC, 0xFFFFFFFD, 0xFFFFFFFC.
C39_NegativePosition ==
    /\ OriginReturned(1) /\ rt.position = -1
    /\ OriginValues(rt.writes) = <<-4, -3, -4>>

\* ------------------------------------------------------------------------
\* C40: the tokenizer
\* ------------------------------------------------------------------------

Blank(c) == c \in {" ", TAB, CR, LF}

\* The places where a word of the line starts, and the place where the
\* word starting at k ends.
WordStarts(line) ==
    {k \in 1..Len(line) : ~Blank(line[k]) /\ (k = 1 \/ Blank(line[k - 1]))}

WordEnd(line, k) ==
    CHOOSE e \in k..Len(line) :
        /\ \A j \in k..e : ~Blank(line[j])
        /\ (e = Len(line) \/ Blank(line[e + 1]))

\* The n-th word of the line, n from 1.
WordOf(line, n) ==
    LET k == CHOOSE x \in WordStarts(line) :
                 Cardinality({y \in WordStarts(line) : y < x}) = n - 1
    IN  SubSeq(line, k, WordEnd(line, k))

\* A letter as a small letter.
Small(c) == IF c = "A" THEN "a" ELSE IF c = "F" THEN "f" ELSE c

\* The first bytes of a word, at most 63, as small letters.
Kept(word) ==
    [j \in 1..(IF Len(word) > 63 THEN 63 ELSE Len(word)) |-> Small(word[j])]

\* A line has been tokenized.
Tokenized == rt.routine = "tokens" /\ rt.echoed

\* C40: for every command line of up to 255 bytes the tokenizer produces
\* at most 16 tokens, each at most 63 bytes and NUL-terminated within its 64
\* bytes, stores no byte outside the 16 x 64 array, drops the bytes of a
\* word beyond the 63rd and every word beyond the 16th, and hands every
\* token on in small letters.
C40_Tokenizer ==
    Tokenized =>
        /\ Len(rt.cmd) <= 255
        /\ rt.argc <= 16
        /\ rt.argc = (IF Cardinality(WordStarts(rt.cmd)) > 16 THEN 16
                      ELSE Cardinality(WordStarts(rt.cmd)))
        /\ ~rt.outside
        /\ rt.dispatched = (rt.argc > 0)
        /\ \A row \in 0..(rt.argc - 1) :
              /\ Len(rt.argv[row]) <= 64
              /\ rt.argv[row][Len(rt.argv[row])] = NUL
              /\ Len(rt.argv[row]) - 1 <= 63
              /\ SubSeq(rt.argv[row], 1, Len(rt.argv[row]) - 1) = Kept(WordOf(rt.cmd, row + 1))
              /\ \A j \in 1..(Len(rt.argv[row]) - 1) :
                    rt.argv[row][j] \notin {NUL, "A", "F"}
        /\ \A row \in rt.argc..15 : rt.argv[row] = <<>>

\* C40: a line of 18 words, the first of 100 bytes in capitals and small
\* letters, gave 16 tokens, the first of 63 bytes.
C40_Witness ==
    /\ Tokenized /\ Cardinality(WordStarts(rt.cmd)) = 18 /\ rt.argc = 16
    /\ Len(WordOf(rt.cmd, 1)) = 100 /\ Len(rt.argv[0]) = 64
    /\ \E j \in 1..63 : rt.cmd[j] = "A" /\ rt.argv[0][j] = "a"
    /\ rt.argv[15] = Kept(WordOf(rt.cmd, 16)) \o <<NUL>>

\* C40: a line of 255 bytes without a blank gave one token of 63 bytes.
C40_LongestLine ==
    /\ Tokenized /\ Len(rt.cmd) = 255 /\ rt.argc = 1
    /\ Len(rt.argv[0]) = 64 /\ rt.argv[0][64] = NUL

\* C40: a line of blanks only is echoed and not dispatched.
C40_BlankLine == Tokenized /\ rt.argc = 0 /\ ~rt.dispatched /\ Len(rt.cmd) > 0

\* C40: a word of exactly 63 bytes is kept whole.
C40_FullToken ==
    /\ Tokenized /\ rt.argc >= 1 /\ Len(WordOf(rt.cmd, 1)) = 63
    /\ Len(rt.argv[0]) = 64

============================================================================
